---------------------------- MODULE Spec2Model ----------------------------
(***************************************************************************)
(* A model of the browser-driving agent of this repository:                *)
(*   - the Remote Executor (RemoteComputer): correlated action requests    *)
(*     over a WebSocket, their deadline timers and the inbound dispatch;   *)
(*   - the Turn Loop (Agent.runFullTurn / handleModelResponse / interrupt) *)
(*     as driven by the server's POST /chat and POST /interrupt handlers;  *)
(*   - the Session Registry (initBrowserForConversation and its callers);  *)
(*   - the Local Executor (Computer) and the driver primitives it awaits.  *)
(* JavaScript runs every callback to completion: an action of this model   *)
(* is the code between two real suspension points (network, timer).        *)
(***************************************************************************)
EXTENDS Integers, Sequences, FiniteSets, TLC

VARIABLES
    \* ---- Remote Executor (RemoteComputer) ----
    ws,              \* this.ws and its readyState: "null", "open" or "closed"
    pendingActions,  \* keys of the pendingActions map
    timers,          \* ids whose setTimeout is armed (not cleared, not fired)
    settle,          \* per id: the resolve/reject invocations made, in order
    reqAction,       \* per call: the action name passed to sendAction
    reqPath,         \* per call: the number of points of a drag path
    outcome,         \* per call: what the public operation returned or threw
    returnedNull,    \* calls of sendAction that returned null (no channel)
    nextId,          \* the next fresh call / correlation id
    outbox,          \* ids of the action requests sent on the channel
    lastScreenshot,  \* this.lastScreenshot
    currentUrl,      \* this.currentUrl
    ignoredPending,  \* an envelope was ignored while a request was pending
    warned,          \* ids logged by the "unknown action ID" console.warn
    \* ---- Turn Loop (Agent) ----
    isInterrupted,   \* this.isInterrupted
    running,         \* the followed turn's synchronous code is executing
    pc,              \* the followed turn's position in runFullTurn
    modelResponses,  \* its local modelResponses array
    output,          \* response.output of the batch being processed
    idx,             \* index of the for-loop over response.output
    notes,           \* the kinds passed to its messageCallback, in order
    queries,         \* createResponse calls it issued
    begun,           \* handleModelResponse calls it began
    prims,           \* capability primitives it invoked
    oracleLog,       \* what each of its completed oracle queries produced
    failed,          \* the failures that happened in it
    idleInterrupt,   \* agent.interrupt() was called before the followed turn
    blocklist,       \* the patterns of checkBlocklistedUrl's blocklist
    ackLog,          \* <<call id, answer>> of the acknowledgment callback's
                     \* invocations
    intrAt,          \* <<queries, begun, pc, call id of the item in flight>>
                     \* at the first interrupt() made while it was running,
                     \* or <<>>
    \* ---- Session Registry (server.ts) ----
    conversationSessions, \* conversation id -> session instance, 0 if absent
    connectedClients,     \* session instance -> the sockets (calls) attached
    lastActivity,         \* session instance -> last activity time
    browserOpen,          \* session instance -> its browser is not closed
    sessConv,             \* session instance -> its conversation id
    nextSession,          \* the next session instance to construct
    callPc,               \* per call of initBrowserForConversation: position
    callConv,             \* per call: its conversation id
    callKind,             \* per call: "browser" (GET /browser) or "chat"
    callSession,          \* per call: the session instance it returned
    turnsStarted,         \* session instance -> runFullTurn calls on its agent
    now,                  \* Date.now()
    agentInterrupted,     \* session instance -> its agent's isInterrupted
    interruptResult,      \* <<id, value>> of the last interruptAgent(id)
    submitted,            \* session instance -> the chat calls whose message
                          \* started a turn on it, in order
    turnInput,            \* per chat call: the conversationHistory it passed
                          \* to runFullTurn, as the calls of its messages
    lastInbound,          \* session instance -> time of its latest chat
                          \* message, observer message or executor action
    detachedAt,           \* session instance -> time its last observer
                          \* detached, -1 while one is attached or none was
    \* ---- Local Executor (Computer) ----
    page,            \* this.page: "none" before construction, else "absent"
                     \* or "present"
    lop,             \* the operation in progress, or "idle"
    larg,            \* its size argument: points of a path, keys of a chord
    lstep,           \* driver primitives it has invoked
    lbtn,            \* the button the click in progress was asked for
    mouseClicks,     \* <<button asked for, button handed to
                     \* page.mouse.click>> of the clicks so far
    lres,            \* the operations that ended: name, size, outcome and
                     \* the driver primitives invoked
    \* ---- Dispatch on one session ----
    tpc,             \* per turn: its position in runFullTurn
    tbatch,          \* per turn: the number of items of response.output
    tidx,            \* per turn: the index of the item being processed
    tqueries,        \* per turn: createResponse calls it issued
    surface,         \* the primitives invoked on the session's computer,
                     \* in order: <<turn, query, item>>
    \* ---- Desktop host: BrowserManager ----
    session,         \* this.session: 0 for null, else the call that set it
    isInitializing,  \* this.isInitializing
    initPc,          \* per initBrowser call: its position
    initResult,      \* per initBrowser call: "none" or the value returned
    launches,        \* browser contexts launched so far
    assignments,     \* assignments to this.session so far
    \* ---- Desktop host: DesktopBrowserBridge and the channel ----
    hpc,             \* per request id: position of the host's handler
    toExec,          \* envelopes sent by the host, not yet delivered
    responses,       \* per request id: success of the responses sent
    driverOk,        \* per request id: "none", "ok" or "failed"
    actionThrew,     \* per request id: its action function threw
    captured,        \* per request id: the image or URL the host obtained
    reordered        \* an envelope was delivered before an earlier one

remoteVars == <<ws, pendingActions, timers, settle, reqAction, reqPath,
                outcome, returnedNull, nextId, outbox, lastScreenshot,
                currentUrl, warned, ignoredPending>>
turnVars == <<isInterrupted, running, pc, modelResponses, output, idx, notes,
              queries, begun, prims, oracleLog, failed, intrAt, ackLog,
              blocklist, idleInterrupt>>
regVars == <<conversationSessions, connectedClients, lastActivity, browserOpen,
             sessConv, nextSession, callPc, callConv, callKind, callSession,
             turnsStarted, now, agentInterrupted, interruptResult, submitted,
             turnInput, lastInbound, detachedAt>>
localVars == <<page, lop, larg, lstep, lres, lbtn, mouseClicks>>
dispatchVars == <<tpc, tbatch, tidx, tqueries, surface>>
managerVars == <<session, isInitializing, initPc, initResult, launches,
                 assignments>>
bridgeVars == <<hpc, toExec, responses, driverOk, actionThrew, captured,
                reordered>>
vars == <<remoteVars, turnVars, regVars, localVars, dispatchVars, managerVars,
          bridgeVars>>

Last(s) == s[Len(s)]

SeqsUpTo(S, n) == UNION {[1..k -> S] : k \in 0..n}

(***************************************************************************)
(* Bounds of the model.                                                    *)
(***************************************************************************)
MaxReq == 2        \* sendAction calls
MaxQueries == 2    \* oracle queries of the followed turn
MaxItems == 3      \* items the oracle emits in the followed turn
MaxCalls == 2      \* initBrowserForConversation calls
MaxTime == 3       \* clock ticks
MaxPath == 2       \* points of a drag path, keys of a keypress
MaxLocalOps == 2   \* operations invoked on the Local Executor
MaxTurns == 2      \* turns started on one session
MaxBatch == 2      \* call items of one oracle response
MaxTurnQueries == 2 \* oracle queries of one of these turns
MaxInitCalls == 4   \* BrowserManager.initBrowser calls

Ids == 1..MaxReq
Calls == 1..MaxCalls
Instances == 1..MaxCalls
ConvIds == {"a", "b"}
Vals == {"v1", "v2"}
Actions == {"click", "navigate", "takeScreenshot", "getCurrentUrl"}
PathLens == 0..MaxPath
Turns == 1..MaxTurns


(***************************************************************************)
(* Remote Executor: RemoteComputer.                                        *)
(***************************************************************************)

\* message.data.result of a response: a string or something else ("none").
Results == {"none"} \cup Vals

\* message.data.error of a response: a message, or "" when absent or empty.
Errors == {"", "e1"}

\* The result the host's handleAction puts into the response of a request
\* with action a whose action function returned.
StatusText(a) ==
    CASE a = "click" -> "Click performed successfully"
      [] a = "navigate" -> "Navigation performed successfully"
      [] a = "getCurrentUrl" -> "Get current URL performed successfully"
      [] a = "takeScreenshot" -> "Screenshot performed successfully"
      [] OTHER -> "performed successfully"

\* typeof r === "string" for a result r.
IsString(r) == r \in Vals \cup {StatusText(a) : a \in Actions}

\* An inbound action-response envelope for correlation id i, with
\* data.success = ok, data.result = r and data.error = e.
Response(i, ok, r, e) ==
    [type |-> "desktop-browser", action |-> "action-response", id |-> i,
     success |-> ok, result |-> r, error |-> e, data |-> "none"]

\* An unsolicited push of the host: action is "screenshot" or "url".
Push(a, v) ==
    [type |-> "desktop-browser", action |-> a, id |-> 0, success |-> FALSE,
     result |-> "none", error |-> "", data |-> v]

\* An envelope with an action the switch does not know.
Unrecognized ==
    [type |-> "desktop-browser", action |-> "bogus", id |-> 0,
     success |-> FALSE, result |-> "none", error |-> "", data |-> "none"]

\* A parsable envelope whose type is not the one the handler looks for.
UnrecognizedKind ==
    [type |-> "other", action |-> "action-response", id |-> 0,
     success |-> TRUE, result |-> "none", error |-> "", data |-> "none"]

\* A frame JSON.parse throws on.
Unparsable ==
    [type |-> "unparsable", action |-> "none", id |-> 0, success |-> FALSE,
     result |-> "none", error |-> "", data |-> "none"]

\* What can arrive from the host on the attached channel: a response to a
\* request that was sent on it (any number of times, with either verdict,
\* however late), pushes, and junk.  The channel orders nothing, so an
\* envelope is modelled at the moment it arrives.
HostEnvelopes ==
    {Response(i, TRUE, r, "") : i \in outbox, r \in Results}
        \cup {Response(i, FALSE, "none", e) : i \in outbox, e \in Errors}
        \cup {Push(a, v) : a \in {"screenshot", "url"}, v \in Vals}
        \cup {Unrecognized, UnrecognizedKind, Unparsable}

\* RejectionMessage that ignores the error the host sent.
RejectionMessageGeneric(m) == "Unknown error"

\* The message of the Error a failed response rejects with.
RejectionMessage(m) == IF m.error # "" THEN m.error ELSE "Unknown error"

\* Wrapper whose catch block rethrows without looking at the cache.
WrapperRethrows(a, s, shot, url) ==
    IF s[1] = "rejected" THEN <<"threw", s[2]>>
    ELSE CASE a = "takeScreenshot" ->
                 IF shot # "null" THEN <<"returned", shot>>
                 ELSE <<"threw", "No screenshot available">>
           [] a = "getCurrentUrl" ->
                 IF IsString(s[2]) THEN <<"returned", s[2]>>
                 ELSE IF url # "null" THEN <<"returned", url>>
                 ELSE <<"threw", "Current URL not available">>
           [] OTHER -> <<"returned", "void">>

\* What the public operation that awaits sendAction(a) does when sendAction
\* settles as s (<<"resolved", value>> or <<"rejected", message>>) while the
\* caches hold shot and url: it returns a value or throws an error.  The
\* continuation runs as a microtask of the callback that settled the promise.
Wrapper(a, s, shot, url) ==
    CASE a = "takeScreenshot" ->
            IF shot # "null" THEN <<"returned", shot>>
            ELSE IF s[1] = "resolved"
            THEN <<"threw", "No screenshot available">>
            ELSE <<"threw", s[2]>>
      [] a = "getCurrentUrl" ->
            IF s[1] = "resolved" /\ IsString(s[2]) THEN <<"returned", s[2]>>
            ELSE IF url # "null" THEN <<"returned", url>>
            ELSE IF s[1] = "resolved"
            THEN <<"threw", "Current URL not available">>
            ELSE <<"threw", s[2]>>
      [] OTHER ->
            IF s[1] = "resolved" THEN <<"returned", "void">>
            ELSE <<"threw", s[2]>>

\* this.currentUrl after get_current_url received a string result.
UrlAfter(a, s, url) ==
    IF a = "getCurrentUrl" /\ s[1] = "resolved" /\ IsString(s[2])
    THEN s[2]
    ELSE url

RemoteInit ==
    /\ ws = "null"
    /\ pendingActions = {}
    /\ timers = {}
    /\ settle = [i \in Ids |-> <<>>]
    /\ reqAction = [i \in Ids |-> "none"]
    /\ reqPath = [i \in Ids |-> 0]
    /\ outcome = [i \in Ids |-> <<>>]
    /\ returnedNull = {}
    /\ nextId = 1
    /\ outbox = {}
    /\ lastScreenshot = "null"
    /\ currentUrl = "null"
    /\ warned = {}
    /\ ignoredPending = FALSE

\* setWebSocket(ws): a freshly connected socket replaces the reference; the
\* host behind it has seen none of the earlier requests.
SetWebSocket ==
    /\ ws # "open"
    /\ ws' = "open"
    /\ outbox' = {}
    /\ UNCHANGED <<pendingActions, timers, settle, reqAction, reqPath,
                   outcome, returnedNull, nextId, lastScreenshot, currentUrl,
                   warned,
                   ignoredPending>>
    /\ UNCHANGED <<turnVars, regVars, localVars, dispatchVars,
                   managerVars, bridgeVars>>

\* The duplex channel closes: readyState leaves OPEN.  RemoteComputer
\* registers no "close" listener, so nothing of its own state changes.
ChannelClose ==
    /\ ws = "open"
    /\ ws' = "closed"
    /\ UNCHANGED <<pendingActions, timers, settle, reqAction, reqPath,
                   outcome, returnedNull, nextId, outbox, lastScreenshot,
                   currentUrl, warned,
                   ignoredPending>>
    /\ UNCHANGED <<turnVars, regVars, localVars, dispatchVars,
                   managerVars, bridgeVars>>

\* sendAction that registers and sends without testing the channel.
SendActionUnguarded(a) ==
    /\ nextId <= MaxReq
    /\ nextId' = nextId + 1
    /\ reqAction' = [reqAction EXCEPT ![nextId] = a]
    /\ timers' = timers \cup {nextId}
    /\ pendingActions' = pendingActions \cup {nextId}
    /\ outbox' = outbox \cup {nextId}
    /\ UNCHANGED <<returnedNull, settle, outcome>>
    /\ UNCHANGED <<ws, lastScreenshot, currentUrl, warned,
                   ignoredPending>>
    /\ UNCHANGED <<turnVars, regVars, localVars, dispatchVars,
                   managerVars, bridgeVars>>

\* A public operation calls sendAction(action, params): without an open
\* channel it returns null; otherwise it arms the deadline timer, stores the
\* callbacks under a fresh id and sends the request.  The id (Date.now() +
\* random suffix) is modelled as fresh.
SendAction(a) ==
    /\ nextId <= MaxReq
    /\ nextId' = nextId + 1
    /\ reqAction' = [reqAction EXCEPT ![nextId] = a]
    /\ IF ws # "open"
       THEN /\ returnedNull' = returnedNull \cup {nextId}
            /\ outcome' = [outcome EXCEPT ![nextId] =
                   Wrapper(a, <<"resolved", "null">>, lastScreenshot,
                           currentUrl)]
            /\ UNCHANGED <<pendingActions, timers, settle, outbox>>
       ELSE /\ returnedNull' = returnedNull
            /\ IF ws = "open"
               THEN /\ timers' = timers \cup {nextId}
                    /\ pendingActions' = pendingActions \cup {nextId}
                    /\ outbox' = outbox \cup {nextId}
                    /\ UNCHANGED <<settle, outcome>>
               ELSE /\ timers' = timers
                    /\ pendingActions' = pendingActions
                    /\ outbox' = outbox
                    /\ settle' = [settle EXCEPT ![nextId] = Append(@, "closed")]
                    /\ outcome' = [outcome EXCEPT ![nextId] =
                           Wrapper(a, <<"rejected", "closed">>,
                                   lastScreenshot, currentUrl)]
    /\ UNCHANGED <<ws, lastScreenshot, currentUrl, warned,
                   ignoredPending>>
    /\ UNCHANGED <<turnVars, regVars, localVars, dispatchVars,
                   managerVars, bridgeVars>>

\* A simple public operation (click, goto, screenshot, get_current_url):
\* it awaits sendAction with its action name.
Primitive(a) ==
    /\ SendAction(a)
    /\ reqPath' = reqPath

\* drag(path) with a path of n points: a short path throws before
\* sendAction is called.
Drag(n) ==
    /\ nextId <= MaxReq
    /\ reqPath' = [reqPath EXCEPT ![nextId] = n]
    /\ IF n < 2
       THEN /\ nextId' = nextId + 1
            /\ reqAction' = [reqAction EXCEPT ![nextId] = "drag"]
            /\ outcome' = [outcome EXCEPT ![nextId] =
                   <<"threw", "Drag path must contain at least two points">>]
            /\ UNCHANGED <<ws, pendingActions, timers, settle, returnedNull,
                           outbox, lastScreenshot, currentUrl, warned,
                   ignoredPending>>
            /\ UNCHANGED <<turnVars, regVars, localVars, dispatchVars,
                           managerVars, bridgeVars>>
       ELSE SendAction("drag")

\* TimerFire that clears the timer and leaves the request pending.
TimerFireNoReject(i) ==
    /\ i \in timers
    /\ timers' = timers \ {i}
    /\ UNCHANGED <<pendingActions, settle, outcome>>
    /\ UNCHANGED <<ws, reqAction, reqPath, returnedNull, nextId, outbox,
                   lastScreenshot, currentUrl, warned,
                   ignoredPending>>
    /\ UNCHANGED <<turnVars, regVars, localVars, dispatchVars,
                   managerVars, bridgeVars>>

\* The setTimeout callback of request i.
TimerFire(i) ==
    /\ i \in timers
    /\ timers' = timers \ {i}
    /\ IF i \in pendingActions
       THEN /\ pendingActions' = pendingActions \ {i}
            /\ settle' = [settle EXCEPT ![i] = Append(@, "timeout")]
            /\ outcome' = [outcome EXCEPT ![i] =
                   Wrapper(reqAction[i], <<"rejected", "timeout">>,
                           lastScreenshot, currentUrl)]
       ELSE UNCHANGED <<pendingActions, settle, outcome>>
    /\ UNCHANGED <<ws, reqAction, reqPath, returnedNull, nextId, outbox,
                   lastScreenshot, currentUrl, warned,
                   ignoredPending>>
    /\ UNCHANGED <<turnVars, regVars, localVars, dispatchVars,
                   managerVars, bridgeVars>>

\* How the promise of sendAction settles on response m.
Settlement(m) ==
    IF m.success
    THEN <<"resolved", m.result>>
    ELSE <<"rejected", RejectionMessage(m)>>

\* ActionResponse without clearTimeout and without the delete of the entry.
ActionResponseKeepsEntry(m) ==
    IF m.id \in pendingActions
    THEN /\ settle' = [settle EXCEPT ![m.id] =
                          Append(@, IF m.success THEN "resolve" ELSE "reject")]
         /\ outcome' = [outcome EXCEPT ![m.id] =
                Wrapper(reqAction[m.id], Settlement(m), lastScreenshot,
                        currentUrl)]
         /\ currentUrl' = UrlAfter(reqAction[m.id], Settlement(m), currentUrl)
         /\ UNCHANGED <<timers, pendingActions, warned>>
    ELSE /\ warned' = warned \cup {m.id}
         /\ UNCHANGED <<timers, settle, pendingActions, outcome, currentUrl>>

\* The action-response case of the message handler, with the continuation
\* of the operation it settles.
ActionResponse(m) ==
    IF m.id \in pendingActions
    THEN /\ timers' = timers \ {m.id}
         /\ settle' = [settle EXCEPT ![m.id] =
                          Append(@, IF m.success THEN "resolve" ELSE "reject")]
         /\ outcome' = [outcome EXCEPT ![m.id] =
                Wrapper(reqAction[m.id], Settlement(m), lastScreenshot,
                        currentUrl)]
         /\ currentUrl' = UrlAfter(reqAction[m.id], Settlement(m), currentUrl)
         /\ pendingActions' = pendingActions \ {m.id}
         /\ warned' = warned
    ELSE /\ warned' = warned \cup {m.id}
         /\ UNCHANGED <<timers, settle, pendingActions, outcome, currentUrl>>

\* The envelope is one the handler has no case for, or one it cannot parse.
Ignorable(m) ==
    \/ m.type # "desktop-browser"
    \/ m.action \notin {"screenshot", "url", "action-response"}

\* The body of the handler installed by setWebSocket, on envelope m.
\* JSON.parse and the cases run inside a try whose catch only logs.
MessageHandler(m) ==
    /\ IF m.type = "desktop-browser"
       THEN CASE m.action = "screenshot" ->
                    /\ lastScreenshot' = m.data
                    /\ UNCHANGED <<currentUrl, pendingActions, timers, settle,
                                   outcome, warned>>
              [] m.action = "url" ->
                    /\ currentUrl' = m.data
                    /\ UNCHANGED <<lastScreenshot, pendingActions, timers,
                                   settle, outcome, warned>>
              [] m.action = "action-response" ->
                    /\ ActionResponse(m)
                    /\ UNCHANGED lastScreenshot
              [] OTHER ->
                    UNCHANGED <<lastScreenshot, currentUrl, pendingActions,
                                timers, settle, outcome, warned>>
       ELSE UNCHANGED <<lastScreenshot, currentUrl, pendingActions, timers,
                        settle, outcome, warned>>
    /\ ignoredPending' =
           (ignoredPending \/ (Ignorable(m) /\ pendingActions # {}))
    /\ UNCHANGED <<ws, reqAction, reqPath, returnedNull, nextId, outbox>>

\* OnMessage that gives up every pending request on an envelope it has no
\* case for.
OnMessageGivesUp(m) ==
    /\ ws = "open"
    /\ m \in HostEnvelopes
    /\ IF Ignorable(m)
       THEN /\ pendingActions' = {}
            /\ timers' = {}
            /\ UNCHANGED <<lastScreenshot, currentUrl, settle, outcome,
                           warned>>
       ELSE CASE m.action = "screenshot" ->
                    /\ lastScreenshot' = m.data
                    /\ UNCHANGED <<currentUrl, pendingActions, timers, settle,
                                   outcome, warned>>
              [] m.action = "url" ->
                    /\ currentUrl' = m.data
                    /\ UNCHANGED <<lastScreenshot, pendingActions, timers,
                                   settle, outcome, warned>>
              [] OTHER ->
                    /\ ActionResponse(m)
                    /\ UNCHANGED lastScreenshot
    /\ ignoredPending' =
           (ignoredPending \/ (Ignorable(m) /\ pendingActions # {}))
    /\ UNCHANGED <<ws, reqAction, reqPath, returnedNull, nextId, outbox>>
    /\ UNCHANGED <<turnVars, regVars, localVars, dispatchVars,
                   managerVars, bridgeVars>>

\* ws.on("message"): an envelope of the host arrives on the open channel.
OnMessage(m) ==
    /\ ws = "open"
    /\ m \in HostEnvelopes
    /\ MessageHandler(m)
    /\ UNCHANGED <<turnVars, regVars, localVars, dispatchVars,
                   managerVars, bridgeVars>>

RemoteNext ==
    \/ SetWebSocket
    \/ ChannelClose
    \/ \E a \in Actions : Primitive(a)
    \/ \E n \in PathLens : Drag(n)
    \/ \E i \in Ids : TimerFire(i)
    \/ \E m \in HostEnvelopes : OnMessage(m)


(***************************************************************************)
(* Turn Loop: Agent.runFullTurn, Agent.handleModelResponse and             *)
(* Agent.interrupt on one session's agent.  The model follows one turn     *)
(* (one call of runFullTurn) through its code.  The server's POST /chat    *)
(* handler calls runFullTurn without awaiting it and without looking at a  *)
(* turn in progress, so further turns can start on the same agent at any   *)
(* time; the only state such a turn shares with the followed one is        *)
(* this.isInterrupted, which it resets when it starts.                     *)
(***************************************************************************)

\* The items an oracle response can hold.
Kinds == {"msg", "call", "callchk", "fn"}

RECURSIVE ItemsIn(_)
\* The number of items in the oracle responses of log.
ItemsIn(log) ==
    IF log = <<>> THEN 0 ELSE Len(Last(log).items) + ItemsIn(SubSeq(log, 1, Len(log) - 1))

\* response.output as the oracle sends it: a sequence of item kinds, within
\* what is left of the item bound.
Templates == SeqsUpTo(Kinds, MaxItems - ItemsIn(oracleLog))

\* An oracle response: has = FALSE is a response without an output field.
OracleResponses ==
    {[has |-> TRUE, items |-> tm] : tm \in Templates}
        \cup {[has |-> FALSE, items |-> <<>>]}

\* The responses the oracle may give to the query in flight; the last query
\* the bound allows is answered with a closing message.
OracleChoices ==
    IF queries < MaxQueries
    THEN OracleResponses
    ELSE {[has |-> TRUE, items |-> <<"msg">>]}

\* A transcript item.  call_id is 0 and checks is 0 where the item has none.
Item(ty, ro, cid, ch, o) ==
    [type |-> ty, role |-> ro, call_id |-> cid, checks |-> ch, out |-> o]

\* The item of kind k the oracle emits with call id cid.
OracleItem(k, cid) ==
    CASE k = "msg" -> Item("message", "assistant", 0, 0, "text")
      [] k = "call" -> Item("computer_call", "none", cid, 0, "click")
      [] k = "callchk" -> Item("computer_call", "none", cid, 1, "click")
      [] k = "fn" -> Item("function_call", "none", cid, 0, "goto")

\* The synthetic message pushed when createResponse throws.
ErrorMessage == Item("none", "assistant", 0, 0, "error")

\* The message pushed after the loop when the turn was interrupted.
InterruptedMessage == Item("none", "assistant", 0, 0, "interrupted")

\* RemoteComputer's default environment, which decides the URL fetch.
environment == "browser"

\* The locations get_current_url can report.
Urls == {"url", "blocked/url"}

\* The patterns a blocklist can hold.
Patterns == {"blocked"}

\* url.includes(pattern), over Urls and Patterns.
Includes(url, pattern) ==
    \/ url = pattern
    \/ url = "blocked/url" /\ pattern = "blocked"

\* checkBlocklistedUrl(url) throws.
CheckBlocklistedUrlThrows(url) ==
    \E pattern \in blocklist : Includes(url, pattern)

\* currentUrl after the try block around get_current_url and
\* checkBlocklistedUrl: the fetched location is assigned before the check,
\* and the catch logs whatever either of them throws.
CurrentUrlAfterTry(ok, u) ==
    IF ~ok THEN ""
    ELSE IF CheckBlocklistedUrlThrows(u) THEN u
    ELSE u

\* The agent before its first turn.
AgentInit ==
    /\ isInterrupted = FALSE
    /\ running = FALSE
    /\ pc = "idle"
    /\ modelResponses = <<>>
    /\ output = <<>>
    /\ idx = 0
    /\ notes = <<>>
    /\ queries = 0
    /\ begun = 0
    /\ prims = 0
    /\ oracleLog = <<>>
    /\ failed = {}
    /\ intrAt = <<>>
    /\ ackLog = {}
    /\ idleInterrupt = FALSE

\* The blocklist as the source has it: without a pattern.
TurnInit ==
    /\ blocklist = {}
    /\ AgentInit

\* The followed turn is between its call of runFullTurn and its return or
\* throw.
InTurn == pc \notin {"idle", "returned", "threw"}

\* RunFullTurn without the reset of the interruption flag.
RunFullTurnKeepsFlag ==
    /\ ~running
    /\ pc = "idle"
    /\ isInterrupted' = isInterrupted
    /\ modelResponses' = <<>>
    /\ pc' = "while"
    /\ running' = TRUE
    /\ UNCHANGED <<output, idx, notes, queries, begun, prims, oracleLog,
                   failed, intrAt, ackLog, blocklist, idleInterrupt>>
    /\ UNCHANGED <<remoteVars, regVars, localVars, dispatchVars,
                   managerVars, bridgeVars>>

\* POST /chat: the handler calls session.agent.runFullTurn, which resets the
\* interruption flag and enters the loop.
RunFullTurn ==
    /\ ~running
    /\ pc = "idle"
    /\ isInterrupted' = FALSE
    /\ modelResponses' = <<>>
    /\ pc' = "while"
    /\ running' = TRUE
    /\ UNCHANGED <<output, idx, notes, queries, begun, prims, oracleLog,
                   failed, intrAt,
                   ackLog, blocklist,
                   idleInterrupt>>
    /\ UNCHANGED <<remoteVars, regVars, localVars, dispatchVars,
                   managerVars, bridgeVars>>

\* POST /chat for the same conversation, before, during or after the
\* followed turn: runFullTurn of that other turn resets the flag of the
\* shared agent.
RunFullTurnOther ==
    /\ ~running
    /\ isInterrupted' = FALSE
    /\ UNCHANGED <<running, pc, modelResponses, output, idx, notes, queries,
                   begun, prims, oracleLog, failed, intrAt,
                   ackLog, blocklist,
                   idleInterrupt>>
    /\ UNCHANGED <<remoteVars, regVars, localVars, dispatchVars,
                   managerVars, bridgeVars>>

\* WhileTest that leaves the loop as soon as the transcript holds an
\* assistant message anywhere.
WhileTestAnyMessage ==
    /\ running
    /\ pc = "while"
    /\ IF /\ ~isInterrupted
          /\ \A i \in 1..Len(modelResponses) :
                 modelResponses[i].role # "assistant"
       THEN /\ queries' = IF queries < MaxQueries THEN queries + 1
                                                   ELSE queries
            /\ pc' = "query"
            /\ running' = FALSE
       ELSE /\ pc' = "post"
            /\ UNCHANGED <<queries, running>>
    /\ UNCHANGED <<isInterrupted, modelResponses, output, idx, notes, begun,
                   prims, oracleLog, failed, intrAt,
                   ackLog, blocklist,
                   idleInterrupt>>
    /\ UNCHANGED <<remoteVars, regVars, localVars, dispatchVars,
                   managerVars, bridgeVars>>

\* The while condition; when it holds, createResponse is called and awaited.
WhileTest ==
    /\ running
    /\ pc = "while"
    /\ IF /\ ~isInterrupted
          /\ \/ Len(modelResponses) = 0
             \/ Last(modelResponses).role # "assistant"
       THEN /\ queries' = IF queries < MaxQueries THEN queries + 1
                                                   ELSE queries
            /\ pc' = "query"
            /\ running' = FALSE
       ELSE /\ pc' = "post"
            /\ UNCHANGED <<queries, running>>
    /\ UNCHANGED <<isInterrupted, modelResponses, output, idx, notes, begun,
                   prims, oracleLog, failed, intrAt,
                   ackLog, blocklist,
                   idleInterrupt>>
    /\ UNCHANGED <<remoteVars, regVars, localVars, dispatchVars,
                   managerVars, bridgeVars>>

\* createResponse rejects: the catch block notifies, pushes the synthetic
\* message and breaks out of the while loop.
OracleFail ==
    /\ ~running
    /\ pc = "query"
    /\ notes' = Append(notes, "error")
    /\ modelResponses' = Append(modelResponses, ErrorMessage)
    /\ failed' = failed \cup {"oracle"}
    /\ pc' = "post"
    /\ running' = TRUE
    /\ UNCHANGED <<isInterrupted, output, idx, queries, begun, prims,
                   oracleLog, intrAt,
                   ackLog, blocklist,
                   idleInterrupt>>
    /\ UNCHANGED <<remoteVars, regVars, localVars, dispatchVars,
                   managerVars, bridgeVars>>

\* createResponse resolves with response r: the interruption check, the
\* missing-output check (debug is off), then the for loop is entered.
OracleReturn(r) ==
    /\ ~running
    /\ pc = "query"
    /\ r \in OracleChoices
    /\ running' = TRUE
    /\ oracleLog' = Append(oracleLog, r)
    /\ IF isInterrupted
       THEN /\ notes' = Append(notes, "interrupted")
            /\ pc' = "post"
            /\ UNCHANGED <<modelResponses, output, idx>>
       ELSE IF ~r.has
       THEN /\ pc' = "while"
            /\ UNCHANGED <<notes, modelResponses, output, idx>>
       ELSE LET out == [i \in 1..Len(r.items) |->
                           OracleItem(r.items[i], Len(modelResponses) + i)]
            IN  /\ modelResponses' = modelResponses \o out
                /\ output' = out
                /\ idx' = 1
                /\ pc' = "for"
                /\ notes' = notes
    /\ UNCHANGED <<isInterrupted, queries, begun, prims, failed, intrAt,
                   ackLog, blocklist,
                   idleInterrupt>>
    /\ UNCHANGED <<remoteVars, regVars, localVars, dispatchVars,
                   managerVars, bridgeVars>>

\* createResponse resolves with a response without an output field once
\* the query counter has reached its bound: the interruption check, then the
\* continue of the missing-output check.  The log keeps the first
\* MaxQueries responses.
OracleReturnsNoOutput ==
    /\ ~running
    /\ pc = "query"
    /\ queries = MaxQueries
    /\ running' = TRUE
    /\ oracleLog' =
           IF Len(oracleLog) < MaxQueries
           THEN Append(oracleLog, [has |-> FALSE, items |-> <<>>])
           ELSE oracleLog
    /\ IF isInterrupted
       THEN /\ notes' = Append(notes, "interrupted")
            /\ pc' = "post"
       ELSE /\ pc' = "while"
            /\ notes' = notes
    /\ UNCHANGED <<isInterrupted, modelResponses, output, idx, queries,
                   begun, prims, failed, intrAt, ackLog, blocklist,
                   idleInterrupt>>
    /\ UNCHANGED <<remoteVars, regVars, localVars, dispatchVars,
                   managerVars, bridgeVars>>

\* The for loop has consumed response.output.
ForDone ==
    /\ running
    /\ pc = "for"
    /\ idx > Len(output)
    /\ pc' = "while"
    /\ UNCHANGED <<isInterrupted, running, modelResponses, output, idx, notes,
                   queries, begun, prims, oracleLog, failed, intrAt,
                   ackLog, blocklist,
                   idleInterrupt>>
    /\ UNCHANGED <<remoteVars, regVars, localVars, dispatchVars,
                   managerVars, bridgeVars>>

\* The interruption check before an item: notify and break out of the for.
ForInterrupted ==
    /\ running
    /\ pc = "for"
    /\ idx <= Len(output)
    /\ isInterrupted
    /\ notes' = Append(notes, "interrupted")
    /\ pc' = "while"
    /\ UNCHANGED <<isInterrupted, running, modelResponses, output, idx,
                   queries, begun, prims, oracleLog, failed, intrAt,
                   ackLog, blocklist,
                   idleInterrupt>>
    /\ UNCHANGED <<remoteVars, regVars, localVars, dispatchVars,
                   managerVars, bridgeVars>>

\* handleModelResponse on a message item: a thinking notification, no result.
HandleMessage ==
    /\ running
    /\ pc = "for"
    /\ idx <= Len(output)
    /\ ~isInterrupted
    /\ output[idx].type = "message"
    /\ begun' = begun + 1
    /\ notes' = Append(notes, "thinking")
    /\ idx' = idx + 1
    /\ UNCHANGED <<isInterrupted, running, pc, modelResponses, output,
                   queries, prims, oracleLog, failed, intrAt,
                   ackLog, blocklist,
                   idleInterrupt>>
    /\ UNCHANGED <<remoteVars, regVars, localVars, dispatchVars,
                   managerVars, bridgeVars>>

\* handleModelResponse on a function_call: an action notification, then the
\* tool handler (goto) is awaited; it calls computer.goto.
HandleFunctionCall ==
    /\ running
    /\ pc = "for"
    /\ idx <= Len(output)
    /\ ~isInterrupted
    /\ output[idx].type = "function_call"
    /\ begun' = begun + 1
    /\ notes' = Append(notes, "action")
    /\ prims' = prims + 1
    /\ pc' = "tool"
    /\ running' = FALSE
    /\ UNCHANGED <<isInterrupted, modelResponses, output, idx, queries,
                   oracleLog, failed, intrAt,
                   ackLog, blocklist,
                   idleInterrupt>>
    /\ UNCHANGED <<remoteVars, regVars, localVars, dispatchVars,
                   managerVars, bridgeVars>>

\* GotoHandler that reports a failed navigation as a success.
GotoHandlerOptimistic(ok) == "success"

\* The sentinel the goto tool handler returns: it awaits computer.goto(url)
\* and catches its rejection; ok is whether the navigation succeeded.
GotoHandler(ok) == IF ok THEN "success" ELSE "error"

\* ToolSettle that appends the function_call_output twice.
ToolSettleTwice(ok) ==
    /\ ~running
    /\ pc = "tool"
    /\ modelResponses' =
           modelResponses \o
               <<Item("function_call_output", "none", output[idx].call_id, 0,
                      GotoHandler(ok)),
                 Item("function_call_output", "none", output[idx].call_id, 0,
                      GotoHandler(ok))>>
    /\ failed' = IF ok THEN failed ELSE failed \cup {"tool"}
    /\ idx' = idx + 1
    /\ pc' = "for"
    /\ running' = TRUE
    /\ UNCHANGED <<isInterrupted, output, notes, queries, begun, prims,
                   oracleLog, intrAt,
                   ackLog, blocklist,
                   idleInterrupt>>
    /\ UNCHANGED <<remoteVars, regVars, localVars, dispatchVars,
                   managerVars, bridgeVars>>

\* The tool handler returns its sentinel: the function_call_output is
\* appended and the for loop goes on.
ToolSettle(ok) ==
    /\ ~running
    /\ pc = "tool"
    /\ modelResponses' =
           Append(modelResponses,
                  Item("function_call_output", "none", output[idx].call_id, 0,
                       GotoHandler(ok)))
    /\ failed' = IF ok THEN failed ELSE failed \cup {"tool"}
    /\ idx' = idx + 1
    /\ pc' = "for"
    /\ running' = TRUE
    /\ UNCHANGED <<isInterrupted, output, notes, queries, begun, prims,
                   oracleLog, intrAt,
                   ackLog, blocklist,
                   idleInterrupt>>
    /\ UNCHANGED <<remoteVars, regVars, localVars, dispatchVars,
                   managerVars, bridgeVars>>

\* handleModelResponse on a computer_call: an action notification, then the
\* primitive of the action is awaited.
HandleComputerCall ==
    /\ running
    /\ pc = "for"
    /\ idx <= Len(output)
    /\ ~isInterrupted
    /\ output[idx].type = "computer_call"
    /\ begun' = begun + 1
    /\ notes' = Append(notes, "action")
    /\ prims' = prims + 1
    /\ pc' = "prim"
    /\ running' = FALSE
    /\ UNCHANGED <<isInterrupted, modelResponses, output, idx, queries,
                   oracleLog, failed, intrAt,
                   ackLog, blocklist,
                   idleInterrupt>>
    /\ UNCHANGED <<remoteVars, regVars, localVars, dispatchVars,
                   managerVars, bridgeVars>>

\* The primitive settles: on success computer.screenshot() is awaited; a
\* rejection propagates out of handleModelResponse and runFullTurn.
PrimSettle(ok) ==
    /\ ~running
    /\ pc = "prim"
    /\ IF ok
       THEN /\ pc' = "shot"
            /\ failed' = failed
       ELSE /\ pc' = "threw"
            /\ failed' = failed \cup {"primitive"}
    /\ UNCHANGED <<isInterrupted, running, modelResponses, output, idx, notes,
                   queries, begun, prims, oracleLog, intrAt,
                   ackLog, blocklist,
                   idleInterrupt>>
    /\ UNCHANGED <<remoteVars, regVars, localVars, dispatchVars,
                   managerVars, bridgeVars>>

\* AppendCallOutput that loses the result instead of concatenating it.
AppendCallOutputDropped(u) ==
    /\ modelResponses' = modelResponses
    /\ idx' = idx + 1
    /\ pc' = "for"
    /\ running' = TRUE

\* The computer_call_output of the item being handled is appended with
\* current_url u and the for loop goes on.
AppendCallOutput(u) ==
    /\ modelResponses' =
           Append(modelResponses,
                  Item("computer_call_output", "none", output[idx].call_id,
                       output[idx].checks, u))
    /\ idx' = idx + 1
    /\ pc' = "for"
    /\ running' = TRUE

\* ShotSettle that goes on to the result whatever the acknowledgment
\* callback answers.
ShotSettleUnchecked(ok, ack) ==
    /\ ~running
    /\ pc = "shot"
    /\ IF ~ok
       THEN /\ pc' = "threw"
            /\ failed' = failed \cup {"screenshot"}
            /\ UNCHANGED <<modelResponses, idx, running, ackLog>>
       ELSE /\ ackLog' = IF output[idx].checks > 0
                         THEN ackLog \cup {<<output[idx].call_id, ack>>}
                         ELSE ackLog
            /\ pc' = "url"
            /\ UNCHANGED <<failed, modelResponses, idx, running>>
    /\ UNCHANGED <<isInterrupted, output, notes, queries, begun, prims,
                   oracleLog, intrAt, blocklist,
                   idleInterrupt>>
    /\ UNCHANGED <<remoteVars, regVars, localVars, dispatchVars,
                   managerVars, bridgeVars>>

\* The screenshot settles.  Then every pending safety check is put to the
\* acknowledgment callback (ack is its answer); an unacknowledged check
\* throws.  Otherwise, in a browser environment, get_current_url is awaited.
ShotSettle(ok, ack) ==
    /\ ~running
    /\ pc = "shot"
    /\ IF ~ok
       THEN /\ pc' = "threw"
            /\ failed' = failed \cup {"screenshot"}
            /\ UNCHANGED <<modelResponses, idx, running, ackLog>>
       ELSE /\ ackLog' = IF output[idx].checks > 0
                         THEN ackLog \cup {<<output[idx].call_id, ack>>}
                         ELSE ackLog
            /\ IF output[idx].checks > 0 /\ ~ack
               THEN /\ pc' = "threw"
                    /\ failed' = failed \cup {"safety"}
                    /\ UNCHANGED <<modelResponses, idx, running>>
               ELSE IF environment = "browser"
               THEN /\ pc' = "url"
                    /\ UNCHANGED <<failed, modelResponses, idx, running>>
               ELSE /\ AppendCallOutput("")
                    /\ failed' = failed
    /\ UNCHANGED <<isInterrupted, output, notes, queries, begun, prims,
                   oracleLog, intrAt, blocklist,
                   idleInterrupt>>
    /\ UNCHANGED <<remoteVars, regVars, localVars, dispatchVars,
                   managerVars, bridgeVars>>

\* get_current_url settles (a failure is caught and leaves the URL empty):
\* the computer_call_output is appended and the for loop goes on.
UrlSettle(ok, u) ==
    /\ ~running
    /\ pc = "url"
    /\ ~ok => u = "url"
    /\ AppendCallOutput(CurrentUrlAfterTry(ok, u))
    /\ UNCHANGED <<isInterrupted, output, notes, queries, begun, prims,
                   oracleLog, failed, intrAt,
                   ackLog, blocklist,
                   idleInterrupt>>
    /\ UNCHANGED <<remoteVars, regVars, localVars, dispatchVars,
                   managerVars, bridgeVars>>

\* After the while loop: the interrupted notification and message, or the
\* complete notification; then runFullTurn returns modelResponses.
PostLoop ==
    /\ running
    /\ pc = "post"
    /\ IF isInterrupted
       THEN /\ notes' = Append(notes, "interrupted")
            /\ modelResponses' = Append(modelResponses, InterruptedMessage)
       ELSE /\ notes' = Append(notes, "complete")
            /\ modelResponses' = modelResponses
    /\ pc' = "returned"
    /\ running' = FALSE
    /\ UNCHANGED <<isInterrupted, output, idx, queries, begun, prims,
                   oracleLog, failed, intrAt,
                   ackLog, blocklist,
                   idleInterrupt>>
    /\ UNCHANGED <<remoteVars, regVars, localVars, dispatchVars,
                   managerVars, bridgeVars>>

\* POST /interrupt/:conversationId -> interruptAgent -> agent.interrupt().
Interrupt ==
    /\ ~running
    /\ isInterrupted' = TRUE
    /\ intrAt' = IF InTurn /\ intrAt = <<>>
                  THEN <<queries, begun, pc,
                         IF pc = "query" THEN 0 ELSE output[idx].call_id>>
                  ELSE intrAt
    /\ idleInterrupt' = (idleInterrupt \/ pc = "idle")
    /\ UNCHANGED <<running, pc, modelResponses, output, idx, notes, queries,
                   begun, prims, oracleLog, failed, ackLog, blocklist>>
    /\ UNCHANGED <<remoteVars, regVars, localVars, dispatchVars,
                   managerVars, bridgeVars>>

TurnNext ==
    \/ RunFullTurn
    \/ RunFullTurnOther
    \/ WhileTest
    \/ OracleFail
    \/ \E r \in OracleResponses : OracleReturn(r)
    \/ ForDone
    \/ ForInterrupted
    \/ HandleMessage
    \/ HandleFunctionCall
    \/ \E ok \in BOOLEAN : ToolSettle(ok)
    \/ HandleComputerCall
    \/ \E ok \in BOOLEAN : PrimSettle(ok)
    \/ \E ok \in BOOLEAN, ack \in BOOLEAN : ShotSettle(ok, ack)
    \/ \E ok \in BOOLEAN, u \in Urls : UrlSettle(ok, u)
    \/ PostLoop
    \/ Interrupt

\* The steps of a started turn: its own code, and the oracle and the
\* computer answering what it awaits.
TurnStep ==
    \/ WhileTest
    \/ OracleFail
    \/ \E r \in OracleResponses : OracleReturn(r)
    \/ OracleReturnsNoOutput
    \/ ForDone
    \/ ForInterrupted
    \/ HandleMessage
    \/ HandleFunctionCall
    \/ \E ok \in BOOLEAN : ToolSettle(ok)
    \/ HandleComputerCall
    \/ \E ok \in BOOLEAN : PrimSettle(ok)
    \/ \E ok \in BOOLEAN, ack \in BOOLEAN : ShotSettle(ok, ack)
    \/ \E ok \in BOOLEAN, u \in Urls : UrlSettle(ok, u)
    \/ PostLoop

\* The turn loop with an oracle that may go on answering without output.
TurnLiveNext ==
    \/ TurnNext
    \/ OracleReturnsNoOutput

(***************************************************************************)
(* Session Registry: server.ts.  A call is one run of a handler that        *)
(* resolves a session: the GET /browser websocket handler (kind "browser") *)
(* or the POST /chat handler (kind "chat").  A session instance is the     *)
(* object initBrowserForConversation constructs, with its own browser,     *)
(* computer and agent.                                                     *)
(***************************************************************************)

\* Timeout for inactive sessions (30 minutes), in milliseconds.
SESSION_TIMEOUT_MS == 30 * 60 * 1000

\* The step of the model's clock, in milliseconds.
TickMs == 15 * 60 * 1000

RegInit ==
    /\ conversationSessions = [c \in ConvIds |-> 0]
    /\ connectedClients = [s \in Instances |-> {}]
    /\ lastActivity = [s \in Instances |-> 0]
    /\ browserOpen = [s \in Instances |-> FALSE]
    /\ sessConv = [s \in Instances |-> "none"]
    /\ nextSession = 1
    /\ callPc = [c \in Calls |-> "idle"]
    /\ callConv = [c \in Calls |-> "none"]
    /\ callKind = [c \in Calls |-> "none"]
    /\ callSession = [c \in Calls |-> 0]
    /\ turnsStarted = [s \in Instances |-> 0]
    /\ now = 0
    /\ agentInterrupted = [s \in Instances |-> FALSE]
    /\ interruptResult = <<>>
    /\ submitted = [s \in Instances |-> <<>>]
    /\ turnInput = [c \in Calls |-> <<>>]
    /\ lastInbound = [s \in Instances |-> 0]
    /\ detachedAt = [s \in Instances |-> -1]

\* What the handler of call c does with the session s that
\* initBrowserForConversation returned: GET /browser adds its socket to the
\* session's connectedClients; POST /chat refreshes lastActivity and calls
\* session.agent.runFullTurn without awaiting it, passing a
\* conversationHistory that holds the new user message; runFullTurn resets
\* the agent's flag.  act is lastActivity as initBrowserForConversation left
\* it.
AfterInit(c, k, s, act) ==
    /\ callSession' = [callSession EXCEPT ![c] = s]
    /\ IF k = "browser"
       THEN /\ connectedClients' = [connectedClients EXCEPT ![s] = @ \cup {c}]
            /\ callPc' = [callPc EXCEPT ![c] = "attached"]
            /\ lastActivity' = act
            /\ detachedAt' = [detachedAt EXCEPT ![s] = -1]
            /\ UNCHANGED <<turnsStarted, agentInterrupted, submitted,
                           turnInput, lastInbound>>
       ELSE /\ lastActivity' = [act EXCEPT ![s] = now]
            /\ turnsStarted' = [turnsStarted EXCEPT ![s] = @ + 1]
            /\ turnInput' = [turnInput EXCEPT ![c] = <<c>>]
            /\ submitted' = [submitted EXCEPT ![s] = Append(@, c)]
            /\ agentInterrupted' = [agentInterrupted EXCEPT ![s] = FALSE]
            /\ callPc' = [callPc EXCEPT ![c] = "done"]
            /\ connectedClients' = connectedClients
            /\ lastInbound' = [lastInbound EXCEPT ![s] = now]
            /\ detachedAt' = detachedAt
    /\ UNCHANGED interruptResult

\* A handler starts for conversation id and calls
\* initBrowserForConversation(id): an existing session is refreshed and
\* returned; otherwise the browser launch is awaited.
HandlerStart(c, k, id) ==
    /\ callPc[c] = "idle"
    /\ \A d \in Calls : d < c => callPc[d] # "idle"
    /\ callConv' = [callConv EXCEPT ![c] = id]
    /\ callKind' = [callKind EXCEPT ![c] = k]
    /\ IF conversationSessions[id] # 0
       THEN /\ AfterInit(c, k, conversationSessions[id],
                         [lastActivity EXCEPT ![conversationSessions[id]] = now])
       ELSE /\ callPc' = [callPc EXCEPT ![c] = "launching"]
            /\ UNCHANGED <<callSession, connectedClients, lastActivity,
                           turnsStarted, agentInterrupted, interruptResult,
                           submitted, turnInput, lastInbound, detachedAt>>
    /\ UNCHANGED <<conversationSessions, browserOpen, sessConv, nextSession,
                   now>>
    /\ UNCHANGED <<remoteVars, turnVars, localVars, dispatchVars,
                   managerVars, bridgeVars>>

\* The launch, the context, the page and the first navigation are done: the
\* session object is constructed and stored under the conversation id, and
\* the handler goes on with it.
LaunchDone(c) ==
    /\ callPc[c] = "launching"
    /\ nextSession' = nextSession + 1
    /\ browserOpen' = [browserOpen EXCEPT ![nextSession] = TRUE]
    /\ sessConv' = [sessConv EXCEPT ![nextSession] = callConv[c]]
    /\ conversationSessions' =
           [conversationSessions EXCEPT ![callConv[c]] = nextSession]
    /\ AfterInit(c, callKind[c], nextSession,
                 [lastActivity EXCEPT ![nextSession] = now])
    /\ UNCHANGED <<callConv, callKind, now>>
    /\ UNCHANGED <<remoteVars, turnVars, localVars, dispatchVars,
                   managerVars, bridgeVars>>

\* The launch (or a later step of the provisioning) throws: the call ends
\* without a session.
LaunchFail(c) ==
    /\ callPc[c] = "launching"
    /\ callPc' = [callPc EXCEPT ![c] = "failed"]
    /\ UNCHANGED <<conversationSessions, connectedClients, lastActivity,
                   browserOpen, sessConv, nextSession, callConv, callKind,
                   callSession, turnsStarted, now, agentInterrupted,
                   interruptResult, submitted, turnInput, lastInbound, detachedAt>>
    /\ UNCHANGED <<remoteVars, turnVars, localVars, dispatchVars,
                   managerVars, bridgeVars>>

\* connection.socket.on("close"): the socket leaves the connectedClients of
\* the session its handler resolved.
SocketClose(c) ==
    /\ callPc[c] = "attached"
    /\ connectedClients' =
           [connectedClients EXCEPT ![callSession[c]] = @ \ {c}]
    /\ callPc' = [callPc EXCEPT ![c] = "closed"]
    /\ detachedAt' =
           IF connectedClients[callSession[c]] = {c}
           THEN [detachedAt EXCEPT ![callSession[c]] = now]
           ELSE detachedAt
    /\ UNCHANGED <<conversationSessions, lastActivity, browserOpen, sessConv,
                   nextSession, callConv, callKind, callSession, turnsStarted,
                   now, agentInterrupted, interruptResult, submitted,
                   turnInput, lastInbound>>
    /\ UNCHANGED <<remoteVars, turnVars, localVars, dispatchVars,
                   managerVars, bridgeVars>>

\* Inactive without the age test: every registered session.
InactiveWhateverAge ==
    {id \in ConvIds : conversationSessions[id] # 0}

\* The sessions cleanupInactiveSessions removes at the current time.
Inactive ==
    {id \in ConvIds :
        /\ conversationSessions[id] # 0
        /\ now - lastActivity[conversationSessions[id]] > SESSION_TIMEOUT_MS}

\* cleanupInactiveSessions, run by the interval timer: the browser of every
\* inactive session is closed and its entry deleted.
CleanupInactiveSessions ==
    /\ browserOpen' =
           [s \in Instances |->
               IF \E id \in Inactive : conversationSessions[id] = s
               THEN FALSE
               ELSE browserOpen[s]]
    /\ conversationSessions' =
           [id \in ConvIds |->
               IF id \in Inactive THEN 0 ELSE conversationSessions[id]]
    /\ UNCHANGED <<connectedClients, lastActivity, sessConv, nextSession,
                   callPc, callConv, callKind, callSession, turnsStarted, now,
                   agentInterrupted, interruptResult, submitted, turnInput, lastInbound, detachedAt>>
    /\ UNCHANGED <<remoteVars, turnVars, localVars, dispatchVars,
                   managerVars, bridgeVars>>

\* interruptAgent that interrupts the agent of every session.
InterruptAgentEveryone(id) ==
    /\ interruptResult' = <<id, conversationSessions[id] # 0>>
    /\ agentInterrupted' =
           IF conversationSessions[id] = 0
           THEN agentInterrupted
           ELSE [s \in Instances |-> TRUE]
    /\ UNCHANGED <<conversationSessions, connectedClients, lastActivity,
                   browserOpen, sessConv, nextSession, callPc, callConv,
                   callKind, callSession, turnsStarted, now, submitted,
                   turnInput, lastInbound, detachedAt>>
    /\ UNCHANGED <<remoteVars, turnVars, localVars, dispatchVars,
                   managerVars, bridgeVars>>

\* POST /interrupt/:conversationId -> interruptAgent(id): false when the
\* registry has no session for id; otherwise agent.interrupt() on the
\* session's agent, and true.
InterruptAgent(id) ==
    /\ interruptResult' = <<id, conversationSessions[id] # 0>>
    /\ agentInterrupted' =
           IF conversationSessions[id] = 0
           THEN agentInterrupted
           ELSE [agentInterrupted EXCEPT ![conversationSessions[id]] = TRUE]
    /\ UNCHANGED <<conversationSessions, connectedClients, lastActivity,
                   browserOpen, sessConv, nextSession, callPc, callConv,
                   callKind, callSession, turnsStarted, now, submitted,
                   turnInput, lastInbound, detachedAt>>
    /\ UNCHANGED <<remoteVars, turnVars, localVars, dispatchVars,
                   managerVars, bridgeVars>>

\* connection.socket.on("message"): an observer's message on an attached
\* socket; a page update makes the session's page navigate.
SocketMessage(c) ==
    /\ callPc[c] = "attached"
    /\ lastInbound' = [lastInbound EXCEPT ![callSession[c]] = now]
    /\ UNCHANGED <<conversationSessions, connectedClients, lastActivity,
                   browserOpen, sessConv, nextSession, callPc, callConv,
                   callKind, callSession, turnsStarted, now, agentInterrupted,
                   interruptResult, submitted, turnInput, detachedAt>>
    /\ UNCHANGED <<remoteVars, turnVars, localVars, dispatchVars,
                   managerVars, bridgeVars>>

\* A turn started on session instance s has its agent execute an action on
\* the session's computer.
ExecutorEvent(s) ==
    /\ turnsStarted[s] > 0
    /\ browserOpen[s]
    /\ lastInbound' = [lastInbound EXCEPT ![s] = now]
    /\ UNCHANGED <<conversationSessions, connectedClients, lastActivity,
                   browserOpen, sessConv, nextSession, callPc, callConv,
                   callKind, callSession, turnsStarted, now, agentInterrupted,
                   interruptResult, submitted, turnInput, detachedAt>>
    /\ UNCHANGED <<remoteVars, turnVars, localVars, dispatchVars,
                   managerVars, bridgeVars>>

\* Time passes.
Tick ==
    /\ now < MaxTime * TickMs
    /\ now' = now + TickMs
    /\ UNCHANGED <<conversationSessions, connectedClients, lastActivity,
                   browserOpen, sessConv, nextSession, callPc, callConv,
                   callKind, callSession, turnsStarted, agentInterrupted,
                   interruptResult, submitted, turnInput, lastInbound, detachedAt>>
    /\ UNCHANGED <<remoteVars, turnVars, localVars, dispatchVars,
                   managerVars, bridgeVars>>

RegNext ==
    \/ \E c \in Calls, k \in {"browser", "chat"}, id \in ConvIds :
           HandlerStart(c, k, id)
    \/ \E c \in Calls : LaunchDone(c)
    \/ \E c \in Calls : LaunchFail(c)
    \/ \E c \in Calls : SocketClose(c)
    \/ \E c \in Calls : SocketMessage(c)
    \/ \E s \in Instances : ExecutorEvent(s)
    \/ CleanupInactiveSessions
    \/ \E id \in ConvIds : InterruptAgent(id)
    \/ Tick

(***************************************************************************)
(* Local Executor: Computer, which drives a Playwright page.  An operation *)
(* checks the page, then awaits the driver primitives one after another;   *)
(* a driver primitive that rejects ends the operation with its error.      *)
(***************************************************************************)

\* The error of an operation invoked without a page.
NotReady == "Page not initialized"

\* The error of a drag whose path has fewer than two points.
InvalidArgument == "Drag path must contain at least two points"

\* The operations of the Capability Interface.
LocalOps ==
    {"click", "double_click", "move", "drag", "scroll", "keypress", "type",
     "wait", "screenshot", "get_current_url", "goto", "back", "forward"}

\* The operations whose argument has a size the code looks at.
SizedOps == {"drag", "keypress"}

\* The buttons a click can be asked for.
Buttons == {"left", "right", "wheel", "back", "forward"}

\* click's mappedButton that hands the requested button to the driver as
\* it is.
MappedButtonAsGiven(button) == button

\* click's mappedButton: the button handed to page.mouse.click.
MappedButton(button) ==
    IF button = "wheel"
    THEN "middle"
    ELSE IF button = "back" \/ button = "forward"
    THEN "left"
    ELSE button

\* The number of driver primitives operation op invokes when every one of
\* them succeeds; n is the number of points of a drag path or of keys.
DriverPlan(op, n) ==
    CASE op \in {"click", "scroll"} -> 2
      [] op = "drag" -> n + 2
      [] op = "keypress" -> n
      [] OTHER -> 1

LocalInit ==
    /\ page = "none"
    /\ lop = "idle"
    /\ larg = 0
    /\ lstep = 0
    /\ lres = <<>>
    /\ lbtn = "none"
    /\ mouseClicks = {}

\* An ended operation.
EndedOp(op, n, o, k) == [op |-> op, n |-> n, outcome |-> o, calls |-> k]

\* new Computer(dimensions, environment, page), with or without a page.
NewComputer(p) ==
    /\ page = "none"
    /\ page' = IF p THEN "present" ELSE "absent"
    /\ UNCHANGED <<lop, larg, lstep, lres, lbtn, mouseClicks>>
    /\ UNCHANGED <<remoteVars, turnVars, regVars, dispatchVars,
                   managerVars, bridgeVars>>

\* An operation is invoked: the page check, for drag the path check, then
\* the first driver primitive is invoked and awaited.  b is the button of a
\* click.
LocalCall(op, n, b) ==
    /\ page # "none"
    /\ lop = "idle"
    /\ Len(lres) < MaxLocalOps
    /\ op \notin SizedOps => n = 0
    /\ op # "click" => b = "left"
    /\ IF page = "absent"
       THEN /\ lres' = Append(lres, EndedOp(op, n, NotReady, 0))
            /\ UNCHANGED <<lop, larg, lstep, lbtn>>
       ELSE IF op = "drag" /\ n < 2
       THEN /\ lres' = Append(lres, EndedOp(op, n, InvalidArgument, 0))
            /\ UNCHANGED <<lop, larg, lstep, lbtn>>
       ELSE IF DriverPlan(op, n) = 0
       THEN /\ lres' = Append(lres, EndedOp(op, n, "returned", 0))
            /\ UNCHANGED <<lop, larg, lstep, lbtn>>
       ELSE /\ lop' = op
            /\ larg' = n
            /\ lstep' = 1
            /\ lres' = lres
            /\ lbtn' = IF op = "click" THEN b ELSE "none"
    /\ UNCHANGED <<page, mouseClicks>>
    /\ UNCHANGED <<remoteVars, turnVars, regVars, dispatchVars,
                   managerVars, bridgeVars>>

\* The awaited driver primitive settles: a rejection ends the operation,
\* otherwise the next primitive is invoked or the operation returns.
DriverSettle(ok) ==
    /\ lop # "idle"
    /\ IF ~ok
       THEN /\ lres' = Append(lres, EndedOp(lop, larg, "driver error", lstep))
            /\ lop' = "idle"
            /\ larg' = 0
            /\ lstep' = 0
            /\ lbtn' = "none"
            /\ UNCHANGED mouseClicks
       ELSE IF lstep < DriverPlan(lop, larg)
       THEN /\ lstep' = lstep + 1
            /\ mouseClicks' =
                   IF lop = "click"
                   THEN mouseClicks \cup {<<lbtn, MappedButton(lbtn)>>}
                   ELSE mouseClicks
            /\ UNCHANGED <<lop, larg, lres, lbtn>>
       ELSE /\ lres' = Append(lres, EndedOp(lop, larg, "returned", lstep))
            /\ lop' = "idle"
            /\ larg' = 0
            /\ lstep' = 0
            /\ lbtn' = "none"
            /\ UNCHANGED mouseClicks
    /\ UNCHANGED page
    /\ UNCHANGED <<remoteVars, turnVars, regVars, dispatchVars,
                   managerVars, bridgeVars>>

LocalNext ==
    \/ \E p \in BOOLEAN : NewComputer(p)
    \/ \E op \in LocalOps, n \in PathLens, b \in Buttons : LocalCall(op, n, b)
    \/ \E ok \in BOOLEAN : DriverSettle(ok)

(***************************************************************************)
(* Dispatch on one session: the turns that POST /chat starts on the        *)
(* session's agent, each followed through its primitives.  The handler     *)
(* does not await runFullTurn, so a turn can start while an earlier one    *)
(* is suspended; all of them share the agent's isInterrupted flag and the  *)
(* session's computer.  Here a batch holds computer_call items without     *)
(* safety checks, and the turn is followed from one await to the next.     *)
(***************************************************************************)

DispatchInit ==
    /\ tpc = [t \in Turns |-> "idle"]
    /\ tbatch = [t \in Turns |-> 0]
    /\ tidx = [t \in Turns |-> 0]
    /\ tqueries = [t \in Turns |-> 0]
    /\ surface = <<>>

\* The turns that have a primitive, its screenshot or its URL fetch in
\* flight on the session's computer.
Busy == {t \in Turns : tpc[t] \in {"prim", "shot", "url"}}

\* POST /chat: runFullTurn is called; it resets the flag, finds
\* modelResponses empty and awaits its first createResponse.
StartTurn(t) ==
    /\ tpc[t] = "idle"
    /\ \A d \in Turns : d < t => tpc[d] # "idle"
    /\ isInterrupted' = FALSE
    /\ tpc' = [tpc EXCEPT ![t] = "query"]
    /\ tqueries' = [tqueries EXCEPT ![t] = 1]
    /\ UNCHANGED <<tbatch, tidx, surface>>
    /\ UNCHANGED <<running, pc, modelResponses, output, idx, notes, queries,
                   begun, prims, oracleLog, failed, intrAt,
                   ackLog, blocklist,
                   idleInterrupt>>
    /\ UNCHANGED <<remoteVars, regVars, localVars, managerVars,
                   bridgeVars>>

\* createResponse of turn t rejects: the catch block breaks out of the loop
\* and runFullTurn returns.
DispatchOracleFail(t) ==
    /\ tpc[t] = "query"
    /\ tpc' = [tpc EXCEPT ![t] = "done"]
    /\ UNCHANGED <<tbatch, tidx, tqueries, surface>>
    /\ UNCHANGED <<running, pc, modelResponses, output, idx, notes, queries,
                   begun, prims, oracleLog, failed, intrAt,
                   ackLog, blocklist,
                   idleInterrupt>>
    /\ UNCHANGED isInterrupted
    /\ UNCHANGED <<remoteVars, regVars, localVars, managerVars,
                   bridgeVars>>

\* createResponse of turn t resolves with n computer_call items, or with a
\* closing assistant message when n = 0.  An interrupted turn breaks; a
\* closing message ends the loop; otherwise the first item's primitive is
\* invoked on the computer and awaited.
BatchArrives(t, n) ==
    /\ tpc[t] = "query"
    /\ n \in 0..MaxBatch
    /\ tqueries[t] = MaxTurnQueries => n = 0
    /\ IF isInterrupted \/ n = 0
       THEN /\ tpc' = [tpc EXCEPT ![t] = "done"]
            /\ UNCHANGED <<tbatch, tidx, surface>>
       ELSE /\ tbatch' = [tbatch EXCEPT ![t] = n]
            /\ tidx' = [tidx EXCEPT ![t] = 1]
            /\ surface' = Append(surface, <<t, tqueries[t], 1>>)
            /\ tpc' = [tpc EXCEPT ![t] = "prim"]
    /\ UNCHANGED tqueries
    /\ UNCHANGED <<running, pc, modelResponses, output, idx, notes, queries,
                   begun, prims, oracleLog, failed, intrAt,
                   ackLog, blocklist,
                   idleInterrupt>>
    /\ UNCHANGED isInterrupted
    /\ UNCHANGED <<remoteVars, regVars, localVars, managerVars,
                   bridgeVars>>

\* The primitive of turn t settles: computer.screenshot() is awaited, or
\* the rejection propagates out of runFullTurn.
PrimitiveSettles(t, ok) ==
    /\ tpc[t] = "prim"
    /\ tpc' = [tpc EXCEPT ![t] = IF ok THEN "shot" ELSE "threw"]
    /\ UNCHANGED <<tbatch, tidx, tqueries, surface>>
    /\ UNCHANGED <<running, pc, modelResponses, output, idx, notes, queries,
                   begun, prims, oracleLog, failed, intrAt,
                   ackLog, blocklist,
                   idleInterrupt>>
    /\ UNCHANGED isInterrupted
    /\ UNCHANGED <<remoteVars, regVars, localVars, managerVars,
                   bridgeVars>>

\* The screenshot of turn t settles: get_current_url is awaited, or the
\* rejection propagates.
ScreenshotSettles(t, ok) ==
    /\ tpc[t] = "shot"
    /\ tpc' = [tpc EXCEPT ![t] = IF ok THEN "url" ELSE "threw"]
    /\ UNCHANGED <<tbatch, tidx, tqueries, surface>>
    /\ UNCHANGED <<running, pc, modelResponses, output, idx, notes, queries,
                   begun, prims, oracleLog, failed, intrAt,
                   ackLog, blocklist,
                   idleInterrupt>>
    /\ UNCHANGED isInterrupted
    /\ UNCHANGED <<remoteVars, regVars, localVars, managerVars,
                   bridgeVars>>

\* get_current_url of turn t settles and the item's result is recorded.
\* The for loop goes on: the next item's primitive is invoked unless the
\* turn was interrupted; after the last item the while condition is
\* evaluated, and the oracle is queried again unless the turn was
\* interrupted.
ResultRecorded(t) ==
    /\ tpc[t] = "url"
    /\ IF isInterrupted
       THEN /\ tpc' = [tpc EXCEPT ![t] = "done"]
            /\ UNCHANGED <<tidx, tqueries, surface>>
       ELSE IF tidx[t] < tbatch[t]
       THEN /\ tidx' = [tidx EXCEPT ![t] = @ + 1]
            /\ surface' = Append(surface, <<t, tqueries[t], tidx[t] + 1>>)
            /\ tpc' = [tpc EXCEPT ![t] = "prim"]
            /\ UNCHANGED tqueries
       ELSE /\ tqueries' = [tqueries EXCEPT ![t] = @ + 1]
            /\ tpc' = [tpc EXCEPT ![t] = "query"]
            /\ UNCHANGED <<tidx, surface>>
    /\ UNCHANGED tbatch
    /\ UNCHANGED <<running, pc, modelResponses, output, idx, notes, queries,
                   begun, prims, oracleLog, failed, intrAt,
                   ackLog, blocklist,
                   idleInterrupt>>
    /\ UNCHANGED isInterrupted
    /\ UNCHANGED <<remoteVars, regVars, localVars, managerVars,
                   bridgeVars>>

DispatchNext ==
    \/ \E t \in Turns : StartTurn(t)
    \/ \E t \in Turns : DispatchOracleFail(t)
    \/ \E t \in Turns, n \in 0..MaxBatch : BatchArrives(t, n)
    \/ \E t \in Turns, ok \in BOOLEAN : PrimitiveSettles(t, ok)
    \/ \E t \in Turns, ok \in BOOLEAN : ScreenshotSettles(t, ok)
    \/ \E t \in Turns : ResultRecorded(t)
    \/ Interrupt

(***************************************************************************)
(* The desktop host's bridge (DesktopBrowserBridge) and its channel to the *)
(* Remote Executor.                                                        *)
(***************************************************************************)

HostIds == 0..MaxReq

BridgeInit ==
    /\ hpc = [i \in HostIds |-> "none"]
    /\ toExec = <<>>
    /\ responses = [i \in HostIds |-> <<>>]
    /\ driverOk = [i \in HostIds |-> "none"]
    /\ actionThrew = [i \in HostIds |-> FALSE]
    /\ captured = [i \in HostIds |-> "none"]
    /\ reordered = FALSE

\* The id of a computer-action request whose action is none of the cases of
\* the bridge's switch.
ForeignId == 0

\* The actions for which handleAction is called with takeScreenshotAfter.
TakesScreenshotAfter(a) == a \in {"click"}

\* The envelopes in flight after the bridge has called webSocket.send on m
\* with q in flight: every send of the bridge is guarded by the connection.
Sent(q, m) == IF ws = "open" THEN Append(q, m) ELSE q

\* q without its k-th element.
RemoveAt(q, k) == SubSeq(q, 1, k - 1) \o SubSeq(q, k + 1, Len(q))

\* sendActionResponse that sends its envelope twice.
SendActionResponseTwice(i, success, result, error, q) ==
    /\ toExec' = Sent(Sent(q, Response(i, success, result, error)),
                      Response(i, success, result, error))
    /\ responses' = [responses EXCEPT ![i] =
           IF ws = "open" THEN Append(Append(@, success), success) ELSE @]

\* sendActionResponse(id, success, result, error), called with q in flight.
SendActionResponse(i, success, result, error, q) ==
    /\ toExec' = Sent(q, Response(i, success, result, error))
    /\ responses' = [responses EXCEPT ![i] =
           IF ws = "open" THEN Append(@, success) ELSE @]

\* handleMessage on the computer-action request i that sendAction sent: the
\* case of its action calls handleAction, which awaits the action function,
\* which awaits the call into the BrowserManager.
HostReceive(i) ==
    /\ ws = "open"
    /\ i \in outbox
    /\ hpc[i] = "none"
    /\ hpc' = [hpc EXCEPT ![i] = "action"]
    /\ UNCHANGED <<toExec, responses, driverOk, actionThrew, captured,
                   reordered>>
    /\ UNCHANGED <<remoteVars, turnVars, regVars, localVars, dispatchVars,
                   managerVars>>

\* handleMessage on a computer-action request with an id and an action the
\* switch has no case for: the default case answers with a failure.
HostReceiveUnknown ==
    /\ ws = "open"
    /\ hpc[ForeignId] = "none"
    /\ hpc' = [hpc EXCEPT ![ForeignId] = "done"]
    /\ SendActionResponse(ForeignId, FALSE, "none", "Unknown action: bogus",
                          toExec)
    /\ UNCHANGED <<driverOk, actionThrew, captured, reordered>>
    /\ UNCHANGED <<remoteVars, turnVars, regVars, localVars, dispatchVars,
                   managerVars>>

\* The BrowserManager call of request i returns: ok tells whether the driver
\* primitive succeeded, v is the image or the URL it produced.  The
\* BrowserManager catches the driver's error and returns false or null, and
\* the action functions of click and navigate do not look at the value;
\* the one of getCurrentUrl sends the url event with whatever it received;
\* the one of takeScreenshot sends the screenshot event or throws.
HostActionSettles(i, ok, v) ==
    /\ i \in Ids
    /\ hpc[i] = "action"
    /\ driverOk' = [driverOk EXCEPT ![i] = IF ok THEN "ok" ELSE "failed"]
    /\ CASE reqAction[i] = "getCurrentUrl" ->
              /\ captured' = [captured EXCEPT ![i] = IF ok THEN v ELSE "null"]
              /\ SendActionResponse(i, TRUE, StatusText(reqAction[i]), "",
                     Sent(toExec, Push("url", IF ok THEN v ELSE "null")))
              /\ hpc' = [hpc EXCEPT ![i] = "done"]
              /\ actionThrew' = actionThrew
         [] reqAction[i] = "takeScreenshot" ->
              IF ok
              THEN /\ captured' = [captured EXCEPT ![i] = v]
                   /\ SendActionResponse(i, TRUE, StatusText(reqAction[i]),
                          "", Sent(toExec, Push("screenshot", v)))
                   /\ hpc' = [hpc EXCEPT ![i] = "done"]
                   /\ actionThrew' = actionThrew
              ELSE /\ captured' = captured
                   /\ SendActionResponse(i, FALSE, "none",
                          "Failed to take screenshot", toExec)
                   /\ hpc' = [hpc EXCEPT ![i] = "done"]
                   /\ actionThrew' = [actionThrew EXCEPT ![i] = TRUE]
         [] TakesScreenshotAfter(reqAction[i]) ->
              /\ v = "v1"
              /\ hpc' = [hpc EXCEPT ![i] = "shot"]
              /\ UNCHANGED <<toExec, responses, captured, actionThrew>>
         [] OTHER ->
              /\ v = "v1"
              /\ SendActionResponse(i, TRUE, StatusText(reqAction[i]), "",
                                    toExec)
              /\ hpc' = [hpc EXCEPT ![i] = "done"]
              /\ UNCHANGED <<captured, actionThrew>>
    /\ reordered' = reordered
    /\ UNCHANGED <<remoteVars, turnVars, regVars, localVars, dispatchVars,
                   managerVars>>

\* The takeScreenshot call handleAction makes after the action function of
\* request i returned: an image is sent as a screenshot event, null is
\* skipped, and the success response follows.
HostScreenshotAfter(i, ok, v) ==
    /\ i \in Ids
    /\ hpc[i] = "shot"
    /\ ~ok => v = "v1"
    /\ captured' = [captured EXCEPT ![i] = IF ok THEN v ELSE @]
    /\ SendActionResponse(i, TRUE, StatusText(reqAction[i]), "",
           IF ok THEN Sent(toExec, Push("screenshot", v)) ELSE toExec)
    /\ hpc' = [hpc EXCEPT ![i] = "done"]
    /\ UNCHANGED <<driverOk, actionThrew, reordered>>
    /\ UNCHANGED <<remoteVars, turnVars, regVars, localVars, dispatchVars,
                   managerVars>>

\* The k-th envelope in flight arrives at the Remote Executor and its
\* message handler runs on it.  The channel orders nothing; reordered
\* records that an envelope overtook an earlier one.
Deliver(k) ==
    /\ ws = "open"
    /\ k \in 1..Len(toExec)
    /\ MessageHandler(toExec[k])
    /\ toExec' = RemoveAt(toExec, k)
    /\ reordered' = (reordered \/ k > 1)
    /\ UNCHANGED <<hpc, responses, driverOk, actionThrew, captured>>
    /\ UNCHANGED <<turnVars, regVars, localVars, dispatchVars, managerVars>>

BridgeNext ==
    \/ SetWebSocket
    \/ \E a \in Actions : Primitive(a)
    \/ \E i \in Ids : HostReceive(i)
    \/ HostReceiveUnknown
    \/ \E i \in Ids, ok \in BOOLEAN, v \in Vals : HostActionSettles(i, ok, v)
    \/ \E i \in Ids, ok \in BOOLEAN, v \in Vals : HostScreenshotAfter(i, ok, v)
    \/ \E k \in 1..(2 * MaxReq + 1) : Deliver(k)

(***************************************************************************)
(* The desktop host's BrowserManager.  initBrowser is followed from one    *)
(* await to the next; cleanup() is not called.                             *)
(***************************************************************************)

InitCalls == 1..MaxInitCalls

ManagerInit ==
    /\ session = 0
    /\ isInitializing = FALSE
    /\ initPc = [c \in InitCalls |-> "idle"]
    /\ initResult = [c \in InitCalls |-> "none"]
    /\ launches = 0
    /\ assignments = 0

\* initBrowser() up to its first await.  With a session, or with the flag
\* set, it returns true from inside the try block, and the finally block
\* resets the flag on the way out; otherwise it sets the flag and awaits
\* launchPersistentContext.
InitBrowser(c) ==
    /\ initPc[c] = "idle"
    /\ IF session # 0 \/ isInitializing
       THEN /\ initPc' = [initPc EXCEPT ![c] = "done"]
            /\ initResult' = [initResult EXCEPT ![c] = "true"]
            /\ isInitializing' = FALSE
            /\ launches' = launches
       ELSE /\ initPc' = [initPc EXCEPT ![c] = "launching"]
            /\ initResult' = initResult
            /\ isInitializing' = TRUE
            /\ launches' = launches + 1
    /\ UNCHANGED <<session, assignments>>
    /\ UNCHANGED <<remoteVars, turnVars, regVars, localVars, dispatchVars,
                   bridgeVars>>

\* The launch and the first navigation are done: the session is assigned,
\* true is returned and the finally block resets the flag.
ContextLaunched(c) ==
    /\ initPc[c] = "launching"
    /\ session' = c
    /\ assignments' = assignments + 1
    /\ initPc' = [initPc EXCEPT ![c] = "done"]
    /\ initResult' = [initResult EXCEPT ![c] = "true"]
    /\ isInitializing' = FALSE
    /\ launches' = launches
    /\ UNCHANGED <<remoteVars, turnVars, regVars, localVars, dispatchVars,
                   bridgeVars>>

\* The launch or the navigation rejects: the catch block returns false and
\* the finally block resets the flag.
ContextLaunchFails(c) ==
    /\ initPc[c] = "launching"
    /\ initPc' = [initPc EXCEPT ![c] = "done"]
    /\ initResult' = [initResult EXCEPT ![c] = "false"]
    /\ isInitializing' = FALSE
    /\ UNCHANGED <<session, assignments, launches>>
    /\ UNCHANGED <<remoteVars, turnVars, regVars, localVars, dispatchVars,
                   bridgeVars>>

ManagerNext ==
    \/ \E c \in InitCalls : InitBrowser(c)
    \/ \E c \in InitCalls : ContextLaunched(c)
    \/ \E c \in InitCalls : ContextLaunchFails(c)

Init ==
    /\ RemoteInit
    /\ TurnInit
    /\ RegInit
    /\ LocalInit
    /\ DispatchInit
    /\ ManagerInit
    /\ BridgeInit

\* The turn loop of one session's agent.
Spec == Init /\ [][TurnNext]_vars

\* The state after construction when patterns have been written into the
\* blocklist literal of checkBlocklistedUrl, at the place its comment marks.
InitWithPatterns ==
    /\ RemoteInit
    /\ blocklist \in SUBSET Patterns
    /\ AgentInit
    /\ RegInit
    /\ LocalInit
    /\ DispatchInit
    /\ ManagerInit
    /\ BridgeInit

\* The turn loop with or without patterns in the blocklist.
SpecBlocklist == InitWithPatterns /\ [][TurnNext]_vars

\* The turn loop when every oracle query and every primitive returns and
\* the turn's own steps are taken, with an oracle that may go on answering
\* without output.
SpecTurnLive == Init /\ [][TurnLiveNext]_vars /\ WF_vars(TurnStep)

\* The same, with an oracle that closes with a message at its last query.
SpecTurnClosing == Init /\ [][TurnNext]_vars /\ WF_vars(TurnStep)

\* The Remote Executor and its channel.
SpecRemote == Init /\ [][RemoteNext]_vars

\* The Remote Executor when every armed deadline timer eventually fires.
SpecRemoteLive ==
    SpecRemote /\ \A i \in Ids : WF_vars(TimerFire(i))

\* The Local Executor.
SpecLocal == Init /\ [][LocalNext]_vars

\* The overlapping turns of one session.
SpecDispatch == Init /\ [][DispatchNext]_vars

\* The session registry and the handlers that resolve sessions.
SpecRegistry == Init /\ [][RegNext]_vars

\* The Remote Executor, the desktop host's bridge and the channel between
\* them, while the channel stays connected and no deadline expires.
SpecBridge == Init /\ [][BridgeNext]_vars

\* Overlapping initBrowser calls on the desktop host's BrowserManager.
SpecManager == Init /\ [][ManagerNext]_vars

(***************************************************************************)
(* Properties.                                                             *)
(***************************************************************************)

\* The number of notifications of the followed turn whose kind is in K.
Notified(K) == Cardinality({i \in DOMAIN notes : notes[i] \in K})

\* The items of the followed turn's transcript of type ty with call id cid.
ItemsOf(ty, cid) ==
    {i \in DOMAIN modelResponses :
        modelResponses[i].type = ty /\ modelResponses[i].call_id = cid}

\* The followed turn has ended: runFullTurn returned or threw.
Ended == pc \in {"returned", "threw"}

\* C1: for every Remote Executor request at most one resolution ever fires:
\* resolve/reject is invoked at most once per correlation id, and once a
\* request is settled (by a response or by its timer) its entry is out of the
\* pending map and its timer is no longer armed, so a late or duplicate
\* response and a late timer change nothing.
C1_AtMostOneResolution ==
    \A i \in Ids :
        /\ Len(settle[i]) <= 1
        /\ settle[i] # <<>> => i \notin pendingActions /\ i \notin timers

\* C1 witness: a request was rejected by its timer and a response for its
\* id arrived afterwards.
C1_Witness ==
    \E i \in Ids : settle[i] = <<"timeout">> /\ i \in warned

\* C2: every turn that ends has emitted exactly one terminal notification
\* (complete, error or interrupted).
C2_ExactlyOneTerminalNotification ==
    Ended => Notified({"complete", "error", "interrupted"}) = 1

\* C3: once interrupt() was called while the turn was running, the turn
\* issues no new oracle query, begins no further item, and ends Interrupted.
C3_InterruptStopsTurn ==
    intrAt # <<>> =>
        /\ queries = intrAt[1]
        /\ begun = intrAt[2]
        /\ pc = "returned" => Last(notes) = "interrupted"

\* C4: initBrowserForConversation is idempotent per conversation id before
\* eviction: all calls with the id return the instance the registry holds,
\* and one surface is provisioned for the id.
C4_ResolveOrCreateIdempotent ==
    \A id \in ConvIds :
        (\A s \in Instances : sessConv[s] = id => browserOpen[s]) =>
            /\ Cardinality({s \in Instances : sessConv[s] = id}) <= 1
            /\ \A c \in Calls :
                   callConv[c] = id /\ callSession[c] # 0 =>
                       callSession[c] = conversationSessions[id]

\* C5: when the acknowledgment callback rejects a pending safety check, the
\* turn ends Failed with exactly one error notification, no result for that
\* call, and no further oracle query.
C5_SafetyRejectionNotifiesError ==
    "safety" \in failed =>
        /\ Ended
        /\ Notified({"error"}) = 1
        /\ ItemsOf("computer_call_output", output[idx].call_id) = {}
        /\ queries = Len(oracleLog)

\* C6: when an oracle query fails in transport, the turn ends with the
\* synthetic failure message last in its transcript and one final error
\* notification that no complete or interrupted notification follows.
C6_OracleFailureEndsWithError ==
    "oracle" \in failed /\ Ended =>
        /\ Last(modelResponses) = ErrorMessage
        /\ Last(notes) = "error"
        /\ Notified({"complete", "interrupted"}) = 0
        /\ queries = Len(oracleLog) + 1

\* The scenario of C7: the first response held only computer calls without
\* safety checks, the second one assistant message; nothing failed and no
\* interrupt came during the turn.
C7_Scenario ==
    /\ pc = "returned"
    /\ Len(oracleLog) = 2
    /\ oracleLog[1].has
    /\ oracleLog[1].items # <<>>
    /\ \A i \in DOMAIN oracleLog[1].items : oracleLog[1].items[i] = "call"
    /\ oracleLog[2] = [has |-> TRUE, items |-> <<"msg">>]
    /\ failed = {}
    /\ intrAt = <<>>

\* C7: in that scenario the turn ends Completed: one result per computer
\* call with its call id, one assistant message, exactly one complete
\* notification and no error or interrupted notification.
C7_ClickThenMessageCompletes ==
    C7_Scenario =>
        /\ Last(notes) = "complete"
        /\ Notified({"complete"}) = 1
        /\ Notified({"error", "interrupted"}) = 0
        /\ \A i \in DOMAIN modelResponses :
               modelResponses[i].type = "computer_call" =>
                   Cardinality(ItemsOf("computer_call_output",
                                       modelResponses[i].call_id)) = 1
        /\ Cardinality({i \in DOMAIN modelResponses :
                           modelResponses[i].type = "computer_call_output"})
               = Len(oracleLog[1].items)
        /\ Cardinality({i \in DOMAIN modelResponses :
                           modelResponses[i].role = "assistant"}) = 1

\* C7 witness: the scenario with the single click call has run to its end.
C7_Witness ==
    /\ C7_Scenario
    /\ oracleLog[1].items = <<"call">>
    /\ Len(modelResponses) = 3

\* C8: an interrupt() during the first oracle query of the turn ends the turn
\* Interrupted with no action notification, no primitive invoked and the
\* response to that query left unprocessed.
C8_InterruptDuringFirstQuery ==
    intrAt # <<>> /\ intrAt[1] = 1 /\ intrAt[3] = "query" =>
        /\ begun = 0
        /\ prims = 0
        /\ Notified({"action"}) = 0
        /\ pc = "returned" => Last(notes) = "interrupted"

\* C9: an interrupt() while an item is executing lets that item finish and
\* record its result, and no later item of the batch is processed.
C9_InterruptMidBatch ==
    intrAt # <<>> /\ intrAt[3] \in {"prim", "shot", "url", "tool"}
        /\ failed \subseteq {"tool"} =>
        /\ begun = intrAt[2]
        /\ pc = "returned" =>
               /\ \E i \in DOMAIN modelResponses :
                      /\ modelResponses[i].call_id = intrAt[4]
                      /\ modelResponses[i].type \in
                             {"computer_call_output", "function_call_output"}
               /\ Last(notes) = "interrupted"

\* C10: when the channel closes, every outstanding request is rejected and
\* removed from the pending map with its timer cancelled: none is left
\* pending while the channel is closed.
C10_ClosureRejectsOutstanding ==
    ws = "closed" => pendingActions = {} /\ timers = {}

\* C11: every request that was sent eventually settles: while a correlation
\* is pending its deadline timer is armed, and it leads to the correlation
\* being settled exactly once and out of the pending map, whether or not the
\* host answers and whether or not the channel stays open.
C11_EverySentRequestSettles ==
    /\ [](pendingActions \subseteq timers)
    /\ \A i \in Ids :
           (i \in pendingActions) ~>
               (i \notin pendingActions /\ Len(settle[i]) = 1
                   /\ outcome[i] # <<>>)

\* C11 witness: the channel closed with a request outstanding, and the
\* request was rejected by its deadline timer.
C11_Witness ==
    \E i \in Ids :
        /\ ws = "closed"
        /\ settle[i] = <<"timeout">>
        /\ i \notin pendingActions
        /\ outcome[i] = <<"threw", "timeout">>

\* C12: an operation invoked while no channel is attached returns a
\* null/no-op result rather than failing, screenshot() and currentUrl()
\* included, also when nothing has been cached.
C12_NoChannelNeverFails ==
    \A i \in returnedNull : outcome[i][1] = "returned"

\* C13: a primitive invoked while the channel is absent or not open sends no
\* envelope, creates no pending correlation, arms no timer and leaves the
\* caches alone.
C13_NoChannelCallChangesNothing ==
    [][(ws # "open" /\ nextId' # nextId) =>
           /\ UNCHANGED <<pendingActions, timers, outbox, settle>>
           /\ UNCHANGED <<lastScreenshot, currentUrl>>]_vars

\* C13 witness: an operation was invoked without an open channel while an
\* earlier request was still pending.
C13_Witness ==
    \E i \in returnedNull, j \in pendingActions : j < i /\ j \in timers

\* The errors a failed round trip rejects with.
RoundTripErrors == {"timeout", "Unknown error"} \cup (Errors \ {""})

\* C14: when the round trip of screenshot() or currentUrl() fails (a failed
\* response or the deadline), the call returns the cached value if there is
\* one, and the error propagates only when there is none.
C14_FailedRoundTripFallsBackToCache ==
    [][\A i \in Ids :
          (settle[i] = <<>> /\ settle'[i] \in {<<"reject">>, <<"timeout">>}) =>
              /\ reqAction[i] = "takeScreenshot" =>
                     IF lastScreenshot # "null"
                     THEN outcome'[i] = <<"returned", lastScreenshot>>
                     ELSE /\ outcome'[i][1] = "threw"
                          /\ outcome'[i][2] \in RoundTripErrors
              /\ reqAction[i] = "getCurrentUrl" =>
                     IF currentUrl # "null"
                     THEN outcome'[i] = <<"returned", currentUrl>>
                     ELSE /\ outcome'[i][1] = "threw"
                          /\ outcome'[i][2] \in RoundTripErrors]_vars

\* C14 witness: a screenshot() that timed out and a currentUrl() that got a
\* failed response both returned the cached value.
C14_Witness ==
    \E i \in Ids, j \in Ids :
        /\ reqAction[i] = "takeScreenshot"
        /\ settle[i] = <<"timeout">>
        /\ outcome[i] = <<"returned", lastScreenshot>>
        /\ reqAction[j] = "getCurrentUrl"
        /\ settle[j] = <<"reject">>
        /\ outcome[j][1] = "returned"

\* C15: a failed response with error e for a pending navigate request makes
\* the navigate call reject with message e, removes the correlation and
\* cancels its timer; a response that matches no pending correlation
\* rejects nothing.
C15_FailedResponseRejectsNavigate ==
    [][\A m \in {Response(i, FALSE, "none", e) : i \in outbox, e \in Errors} :
          ((settle' # settle \/ warned' # warned) /\ OnMessage(m)) =>
              IF m.id \in pendingActions
              THEN (reqAction[m.id] = "navigate" /\ ~m.success
                        /\ m.error # "") =>
                       /\ outcome'[m.id] = <<"threw", m.error>>
                       /\ settle'[m.id] = <<"reject">>
                       /\ m.id \notin pendingActions'
                       /\ m.id \notin timers'
              ELSE UNCHANGED <<outcome, settle, pendingActions, timers>>]_vars

\* C15 witness: a navigate call rejected with the error the host sent, and
\* a second response for its id arrived afterwards.
C15_Witness ==
    \E i \in Ids :
        /\ reqAction[i] = "navigate"
        /\ outcome[i] = <<"threw", "e1">>
        /\ i \in warned

\* C16: when the goto tool's navigation fails, exactly one function result
\* with the call's id and the error sentinel is appended, nothing is thrown
\* and the for loop goes on with the next item.
C16_ToolFailureIsCaptured ==
    [][ToolSettle(FALSE) =>
           /\ Len(modelResponses') = Len(modelResponses) + 1
           /\ Last(modelResponses') =
                  Item("function_call_output", "none", output[idx].call_id,
                       0, "error")
           /\ Cardinality({i \in DOMAIN modelResponses' :
                  /\ modelResponses'[i].type = "function_call_output"
                  /\ modelResponses'[i].call_id = output[idx].call_id}) = 1
           /\ pc' = "for"
           /\ idx' = idx + 1]_vars

\* C16 witness: a turn in which the goto tool failed went on to a second
\* oracle query and completed.
C16_Witness ==
    /\ pc = "returned"
    /\ failed = {"tool"}
    /\ Len(oracleLog) = 2
    /\ Last(notes) = "complete"
    /\ \E i \in DOMAIN modelResponses :
           modelResponses[i].type = "function_call_output"
               /\ modelResponses[i].out = "error"

\* The Remote Executor half of C17: a short drag throws InvalidArgument and
\* never reaches the channel.
C17_RemoteHalf ==
    \A i \in Ids :
        (reqAction[i] = "drag" /\ reqPath[i] < 2) =>
            /\ outcome[i] = <<"threw", InvalidArgument>>
            /\ i \notin outbox
            /\ i \notin pendingActions
            /\ i \notin timers
            /\ settle[i] = <<>>

\* C17: a drag whose path has fewer than two points always fails with
\* InvalidArgument and reaches neither the channel (Remote Executor) nor the
\* driver (Local Executor).
C17_ShortDragIsInvalidArgument ==
    /\ C17_RemoteHalf
    /\ \A k \in DOMAIN lres :
           (lres[k].op = "drag" /\ lres[k].n < 2) =>
               /\ lres[k].outcome = InvalidArgument
               /\ lres[k].calls = 0

\* The Local Executor half of C18: without a page every operation fails
\* with NotReady and invokes no driver primitive.
C18_LocalHalf ==
    page = "absent" =>
        /\ lop = "idle"
        /\ \A k \in DOMAIN lres :
               lres[k].outcome = NotReady /\ lres[k].calls = 0

\* C18: every operation fails when its surface is absent (no page on the
\* Local Executor, no channel on the Remote Executor) and performs no driver
\* call or channel send.
C18_AbsentSurfaceIsNotReady ==
    /\ C18_LocalHalf
    /\ \A i \in returnedNull :
           outcome[i][1] = "threw" /\ i \notin outbox

\* C19: the idle sweep never evicts a session that has an attached
\* observer, however old its lastActivity is.
C19_ObservedSessionNeverEvicted ==
    [][CleanupInactiveSessions =>
           \A id \in ConvIds :
               (/\ conversationSessions[id] # 0
                /\ connectedClients[conversationSessions[id]] # {}) =>
                   /\ conversationSessions'[id] = conversationSessions[id]
                   /\ browserOpen'[conversationSessions[id]]]_vars

\* C20: a sweep removes from the registry every session without observers
\* whose lastActivity is older than the threshold and closes its browser,
\* and leaves alone every session idle for less than the threshold.
C20_SweepEvictsExactlyTheIdle ==
    [][CleanupInactiveSessions =>
           \A id \in ConvIds :
               LET s == conversationSessions[id]
               IN  s # 0 =>
                       /\ (/\ connectedClients[s] = {}
                           /\ now - lastActivity[s] > 30 * 60 * 1000) =>
                              conversationSessions'[id] = 0 /\ ~browserOpen'[s]
                       /\ now - lastActivity[s] < 30 * 60 * 1000 =>
                              /\ conversationSessions'[id] = s
                              /\ browserOpen'[s] = browserOpen[s]
                              /\ lastActivity'[s] = lastActivity[s]
                              /\ connectedClients'[s] = connectedClients[s]]_vars

\* C20 witness: one session was evicted by a sweep and its browser closed
\* while a younger session stayed in the registry.
C20_Witness ==
    \E s \in Instances, t \in Instances :
        /\ sessConv[s] # "none"
        /\ conversationSessions[sessConv[s]] = 0
        /\ ~browserOpen[s]
        /\ sessConv[t] # "none"
        /\ conversationSessions[sessConv[t]] = t
        /\ browserOpen[t]
        /\ lastActivity[t] > lastActivity[s]

\* C21: the Remote Executor of a session never has two pending correlations
\* at the same moment.
C21_AtMostOnePendingCorrelation ==
    Cardinality(pendingActions) <= 1

\* The primitives of turn t in the order they were invoked on the computer.
SurfaceOf(t) ==
    LET F[k \in 0..Len(surface)] ==
            IF k = 0 THEN <<>>
            ELSE IF surface[k][1] = t THEN Append(F[k - 1], surface[k])
            ELSE F[k - 1]
    IN  F[Len(surface)]

\* The first half of C22: the primitives of one turn are invoked in the
\* order in which the oracle emitted their call items.
C22_OrderWithinTurn ==
    \A t \in Turns :
        \A k \in 1..(Len(SurfaceOf(t)) - 1) :
            LET a == SurfaceOf(t)[k]
                b == SurfaceOf(t)[k + 1]
            IN  \/ a[2] < b[2]
                \/ a[2] = b[2] /\ b[3] = a[3] + 1

\* C22: within a session the primitives are invoked in the order in which
\* the oracle emitted their call items, and no two primitives of the session
\* overlap: one is begun only after the previous item's primitive,
\* screenshot and result recording have finished.
C22_SequentialDispatch ==
    /\ C22_OrderWithinTurn
    /\ Cardinality(Busy) <= 1


C23_NoSessionCase ==
    /\ interruptResult = <<"b", FALSE>>
    /\ conversationSessions["b"] = 0
    /\ conversationSessions["a"] # 0

\* C24: a chat call on a session that already started turns passes the
\* oracle a history holding the earlier turns' messages followed by the new
\* user message.
C24_HistoryCarriedForward ==
    \A c \in Calls :
        turnInput[c] # <<>> =>
            \E n \in 1..Len(submitted[callSession[c]]) :
                /\ submitted[callSession[c]][n] = c
                /\ turnInput[c] = SubSeq(submitted[callSession[c]], 1, n)


\* C25: a Local click maps the requested button left to left, right to
\* right, wheel to middle, back to left and forward to left, and the driver
\* never receives a button other than left, right or middle.
C25_ClickButtonMapping ==
    \A c \in mouseClicks :
        /\ c[2] \in {"left", "right", "middle"}
        /\ c[1] = "left" => c[2] = "left"
        /\ c[1] = "right" => c[2] = "right"
        /\ c[1] = "wheel" => c[2] = "middle"
        /\ c[1] = "back" => c[2] = "left"
        /\ c[1] = "forward" => c[2] = "left"

\* C25 case: the driver was handed the button of a wheel click and of a
\* back or forward click.
C25_Witness ==
    /\ \E c \in mouseClicks : c[1] = "wheel"
    /\ \E c \in mouseClicks : c[1] \in {"back", "forward"}


\* The result type that answers a call type.
ResultTypeOf(ty) ==
    IF ty = "computer_call" THEN "computer_call_output"
    ELSE "function_call_output"

\* The call items of the followed turn's accumulated output.
CallItems ==
    {i \in 1..Len(modelResponses) :
        modelResponses[i].type \in {"computer_call", "function_call"}}

\* The positions of the results that answer the call at position i.
ResultsOf(i) ==
    {j \in 1..Len(modelResponses) :
        /\ modelResponses[j].type = ResultTypeOf(modelResponses[i].type)
        /\ modelResponses[j].call_id = modelResponses[i].call_id}

\* C26: whenever the turn loop has an oracle query in flight, every
\* function_call and computer_call item of the turn's accumulated output has
\* exactly one result item with the same call id.
C26_CallResultPairing ==
    pc = "query" => \A i \in CallItems : Cardinality(ResultsOf(i)) = 1

\* C26 case: the second query is in flight and the accumulated output holds
\* a computer_call and a function_call.
C26_Witness ==
    /\ pc = "query"
    /\ queries = 2
    /\ \E i \in CallItems : modelResponses[i].type = "computer_call"
    /\ \E i \in CallItems : modelResponses[i].type = "function_call"

\* The last item of the accumulated output is an assistant-role message.
LastIsAssistant ==
    /\ Len(modelResponses) > 0
    /\ Last(modelResponses).role = "assistant"

\* C27: the oracle is queried only when the loop is not interrupted and the
\* last item of the accumulated output is not an assistant-role message; the
\* loop is left at its test only when it is interrupted or the last item is
\* an assistant-role message; a turn that ends with the complete
\* notification has an assistant-role message as its last item, and, unless
\* the oracle failed, that message is the last item of the last batch, so a
\* batch with a call after its message did not end the turn.
C27_RequeryUntilAssistantMessage ==
    /\ [](pc = "query" => ~LastIsAssistant)
    /\ [](pc = "returned" /\ notes # <<>> /\ Last(notes) = "complete" =>
             /\ LastIsAssistant
             /\ "oracle" \notin failed =>
                   /\ Last(oracleLog).has
                   /\ Last(oracleLog).items # <<>>
                   /\ Last(Last(oracleLog).items) = "msg")
    /\ [][/\ pc = "while" /\ pc' = "query" => ~isInterrupted
          /\ pc = "while" /\ pc' = "post" =>
                isInterrupted \/ LastIsAssistant]_vars

\* C27 case: the first batch was a message followed by a call, the oracle
\* was queried again, and the turn ended with the complete notification.
C27_Witness ==
    /\ pc = "returned"
    /\ Last(notes) = "complete"
    /\ Len(oracleLog) = 2
    /\ oracleLog[1].items = <<"msg", "call">>
    /\ failed = {}


\* The positions of the computer_call_output items of the followed turn.
CallOutputs ==
    {j \in 1..Len(modelResponses) :
        modelResponses[j].type = "computer_call_output"}

\* The position of the computer_call that the result at position j answers.
CallOf(j) ==
    CHOOSE i \in 1..Len(modelResponses) :
        /\ modelResponses[i].type = "computer_call"
        /\ modelResponses[i].call_id = modelResponses[j].call_id

\* C28: every computer_call_output of the transcript lists the pending
\* safety checks of its computer_call, the acknowledgment callback answered
\* true for them before the result was appended, and a call with a rejected
\* check has no result.
C28_AcknowledgedChecksInResult ==
    \A j \in CallOutputs :
        /\ \E i \in 1..j - 1 :
              /\ modelResponses[i].type = "computer_call"
              /\ modelResponses[i].call_id = modelResponses[j].call_id
        /\ modelResponses[j].checks = modelResponses[CallOf(j)].checks
        /\ modelResponses[j].checks > 0 =>
              <<modelResponses[j].call_id, TRUE>> \in ackLog
        /\ <<modelResponses[j].call_id, FALSE>> \notin ackLog

\* C28 case: a call with a pending check got its result after the
\* acknowledgment, and a later call's check was rejected.
C28_Witness ==
    /\ \E j \in CallOutputs : modelResponses[j].checks > 0
    /\ \E c \in 1..MaxItems : <<c, FALSE>> \in ackLog


\* The locations carried by the computer_call_output items of the turn.
ResultLocations == {modelResponses[j].out : j \in CallOutputs}

C29_EmptyBlocklistIsNoOp ==
    blocklist = {} => \A u \in Urls : ~CheckBlocklistedUrlThrows(u)

\* C29 case: with the empty blocklist a result carries each of the
\* locations.
C29_EmptyBlocklistCase ==
    /\ blocklist = {}
    /\ ResultLocations = Urls


\* C30: an inbound envelope of an unknown kind or action, or one that cannot
\* be parsed, leaves the pending map, the timers, the caches and every
\* settlement as they were, and a matching action-response that arrives
\* after it still settles its request and removes its entry.
C30_IgnoredEnvelopeChangesNothing ==
    /\ [][\A m \in {Unrecognized, UnrecognizedKind, Unparsable} :
             OnMessage(m) =>
                UNCHANGED <<ws, pendingActions, timers, settle, outcome,
                            lastScreenshot, currentUrl, warned, outbox,
                            nextId>>]_vars
    /\ [][\A i \in Ids :
             ignoredPending /\ i \in pendingActions =>
                \A r \in Results :
                    OnMessage(Response(i, TRUE, r, "")) =>
                        /\ settle'[i] = Append(settle[i], "resolve")
                        /\ i \notin pendingActions'
                        /\ i \notin timers']_vars

\* C30 case: an envelope was ignored while a request was pending, and every
\* request issued has since been resolved by its action-response.
C30_Witness ==
    /\ ignoredPending
    /\ nextId > 1
    /\ \A i \in 1..nextId - 1 : settle[i] = <<"resolve">>


\* C31: the lastActivity of a registered session is the time of its latest
\* inbound message or executor action, or later.
C31_ActivityRefreshedByEveryEvent ==
    \A id \in ConvIds :
        conversationSessions[id] # 0 =>
            lastActivity[conversationSessions[id]] >=
                lastInbound[conversationSessions[id]]

\* C31, chat messages only: a chat message refreshes lastActivity.
C31_ChatRefreshes ==
    [][\A c \in Calls :
          callPc[c] # "done" /\ callPc'[c] = "done" =>
              lastActivity'[callSession'[c]] = now]_vars

\* C32: a session whose last observer detached is not evicted at the time
\* of the detachment: some time of the grace window passes first.
C32_GraceBeforeEviction ==
    [][\A id \in ConvIds :
          /\ conversationSessions[id] # 0
          /\ conversationSessions'[id] = 0
          /\ detachedAt[conversationSessions[id]] >= 0
          => now > detachedAt[conversationSessions[id]]]_vars


\* C35: in the transcript a turn returns after it was interrupted, every
\* function_call and computer_call item has exactly one result item with the
\* same call id.
C35_InterruptedTranscriptIsPaired ==
    pc = "returned" /\ notes # <<>> /\ Last(notes) = "interrupted" =>
        \A i \in CallItems : Cardinality(ResultsOf(i)) = 1

\* C35, single call: when the batch in hand at the interrupt held one call
\* item, the returned transcript pairs it.
C35_SingleCallBatchIsPaired ==
    /\ pc = "returned"
    /\ notes # <<>>
    /\ Last(notes) = "interrupted"
    /\ \A k \in 1..Len(oracleLog) :
          Cardinality({j \in 1..Len(oracleLog[k].items) :
                          oracleLog[k].items[j] # "msg"}) <= 1
    /\ failed = {}
    => \A i \in CallItems : Cardinality(ResultsOf(i)) = 1

\* C40: a turn that starts after an interrupt delivered while no turn was
\* running finds the flag clear at its first loop test and issues its first
\* oracle query.
C40_IdleInterruptHasNoEffect ==
    /\ [](idleInterrupt /\ pc = "while" /\ queries = 0 => ~isInterrupted)
    /\ [][idleInterrupt /\ pc = "while" /\ queries = 0 /\ pc' # pc =>
             pc' = "query" /\ queries' = 1]_vars

\* C40 case: an interrupt was delivered before the turn, none during it, and
\* the turn ended with the complete notification after an oracle query.
C40_Witness ==
    /\ idleInterrupt
    /\ intrAt = <<>>
    /\ pc = "returned"
    /\ Last(notes) = "complete"
    /\ queries >= 1
    /\ failed = {}


\* C39: when every oracle query and every primitive returns, a started turn
\* eventually returns or throws.
C39_TurnTerminates ==
    (pc = "while") ~> (pc \in {"returned", "threw"})


\* C36: Whatever the interleaving of concurrent initBrowser calls, three or
\* more overlapping calls included, at most one browser context is launched
\* and at most one session is ever assigned: no two launches are in
\* progress together, and without a failed launch there is no second one.
C36_AtMostOneLaunch ==
    /\ Cardinality({c \in InitCalls : initPc[c] = "launching"}) <= 1
    /\ assignments <= 1
    /\ (\A c \in InitCalls : initResult[c] # "false") => launches <= 1

\* As long as a launch is in progress, the isInitializing guard is set.
C36_GuardHeldDuringLaunch ==
    (\E c \in InitCalls : initPc[c] = "launching") => isInitializing

\* The part of C36 that holds: a call that finds the guard set launches
\* nothing.
C36_GuardedCallLaunchesNothing ==
    [][\A c \in InitCalls :
          (isInitializing /\ initPc[c] = "idle" /\ initPc'[c] # "idle")
              => (launches' = launches /\ initResult'[c] = "true")]_vars


\* C37: For every computer-action request with an id that the bridge
\* receives while its channel is connected, the bridge sends exactly one
\* action-response with that id, with success=true after the action
\* function returned and success=false when it threw or when the action
\* name is unknown; it never sends two responses for one request.
C37_ExactlyOneResponse ==
    \A i \in HostIds :
        /\ Len(responses[i]) <= 1
        /\ hpc[i] # "done" => responses[i] = <<>>
        /\ hpc[i] = "done" =>
               responses[i] = <<~(i = ForeignId \/ actionThrew[i])>>

\* Every kind of request has been answered: one whose action function
\* returned, one whose action function threw, and the unknown action.
C37_Witness ==
    /\ hpc[ForeignId] = "done"
    /\ \E i, j \in Ids :
           /\ hpc[i] = "done" /\ actionThrew[i]
           /\ hpc[j] = "done" /\ ~actionThrew[j]


\* C33: After a successful getCurrentUrl round trip (the host sent a url
\* event with the page's URL and then a success response, and they arrived
\* in that order), get_current_url() has returned the URL of the url event,
\* and that URL is the executor's cached current URL when it returns.
C33_ReturnsReportedUrl ==
    \A i \in Ids :
        (/\ reqAction[i] = "getCurrentUrl"
         /\ ~reordered
         /\ captured[i] \in Vals
         /\ settle[i] = <<"resolve">>)
            => outcome[i] = <<"returned", captured[i]>>

\* The cache when the response of such a round trip is handled.
C33_CacheHoldsReportedUrl ==
    [][\A i \in Ids :
          (/\ reqAction[i] = "getCurrentUrl"
           /\ ~reordered'
           /\ captured[i] \in Vals
           /\ settle[i] = <<>> /\ settle'[i] = <<"resolve">>)
              => currentUrl' = captured[i]]_vars

\* What get_current_url() does return after such a round trip: the text of
\* the response's result.
C33_ReturnsStatusText ==
    \A i \in Ids :
        (/\ reqAction[i] = "getCurrentUrl"
         /\ settle[i] = <<"resolve">>)
            => outcome[i] = <<"returned", StatusText("getCurrentUrl")>>

\* C34: On a successful takeScreenshot round trip, screenshot() returns the
\* image the host captured for this request, whatever the order in which
\* the screenshot event and the response arrive.
C34_ReturnsCapturedImage ==
    \A i \in Ids :
        (/\ reqAction[i] = "takeScreenshot"
         /\ settle[i] = <<"resolve">>)
            => outcome[i] = <<"returned", captured[i]>>

\* The case of C34 that holds: the envelopes arrive in the order they were
\* sent.
C34_InOrderReturnsCapturedImage ==
    \A i \in Ids :
        (/\ reqAction[i] = "takeScreenshot"
         /\ ~reordered
         /\ settle[i] = <<"resolve">>)
            => outcome[i] = <<"returned", captured[i]>>

\* C38: If the driver primitive fails on the host while it serves a click
\* or a navigate request, every response sent for the request has
\* success=false, and the Remote Executor call does not return normally.
C38_DriverFailureIsReported ==
    \A i \in Ids :
        (/\ reqAction[i] \in {"click", "navigate"}
         /\ driverOk[i] = "failed")
            => /\ \A n \in 1..Len(responses[i]) : ~responses[i][n]
               /\ (outcome[i] # <<>> => outcome[i][1] = "threw")

\* What the code does on a driver failure that reaches the bridge as an
\* exception of the action function: the response has success=false.
C38_ThrownFailureIsReported ==
    \A i \in Ids :
        actionThrew[i] => \A n \in 1..Len(responses[i]) : ~responses[i][n]

=============================================================================
